---- MODULE Spec2Model ----
(***************************************************************************)
(* Model of the lifeblood-ops-assistant retrieval pipeline:                *)
(*   - RAGPipeline.ask and its helpers   (services/rag_pipeline.py)        *)
(*   - the prompt builder                (services/prompts.py)             *)
(*   - chunk_document                    (utils/chunking.py)               *)
(*   - ChromaVectorStore                 (services/retrieval.py)           *)
(*                                                                         *)
(* A Python str is a sequence of one-character strings.  The fixed answer  *)
(* literals of the code are one-token sequences holding the literal, so    *)
(* that every answer is a sequence and answers compare by equality.        *)
(* A score is an integer number of thousandths (0.01 is 10, 1.0 is 1000).  *)
(***************************************************************************)
EXTENDS Integers, Sequences, FiniteSets, TLC

VARIABLES
    pc,                          \* position inside RAGPipeline.ask
    question, mode, top_k,       \* arguments of the current ask call
    has_relevance_scores,        \* hasattr(vectorstore, 'similarity_search_with_relevance_scores')
    retrieved_docs_with_scores,  \* what the vector store returned
    citations,                   \* _convert_langchain_docs_to_citations(...)
    meaningful_citations,        \* _filter_meaningful_citations(...)
    prompt,                      \* build_rag_prompt(...)
    llm_response,                \* text extracted from the LLM response
    result,                      \* the dict returned by ask
    propagated,                  \* TRUE iff ask let an exception escape to its caller
    calls,                       \* external capabilities invoked so far, in order
    c_pc,                        \* position inside chunk_document
    text, chunk_size_chars, overlap_chars,   \* arguments of chunk_document
    start, chunk_index, chunks,  \* locals of chunk_document
    c_raised,                    \* TRUE iff chunk_document raised ValueError
    windows,                     \* the (start, end) pairs the while loop examined, in order
    collection,                  \* records of the Chroma collection, by id
    col_dim,                     \* embedding dimension of the collection, 0 while unset
    s_op,                        \* the last ChromaVectorStore call and its arguments
    s_raised,                    \* message of the exception that call raised, or NoError
    s_log,                       \* backend calls and warnings of that call, in order
    query_result,                \* what query returned
    raw_distances,               \* results['distances'][0] of the backend query
    count_result,                \* what count returned
    written,                     \* latest chunk written per chunk_id since the last reset, while hist_ok
    hist_ok,                     \* every upsert since the last reset succeeded with one dimension
    reset_wiped,                 \* a reset removed records and nothing was written since
    sn_pc,                       \* position of the _create_snippet call
    sn_text, sn_max_length,      \* arguments of _create_snippet
    sn_result,                   \* what _create_snippet returned
    h_pc,                        \* position inside the POST /ask handler
    h_request,                   \* the AskRequest and the trace id of the HTTP request
    h_settings,                  \* EMBED_PROVIDER and LLM_PROVIDER of the configuration
    h_built,                     \* the dependencies built so far
    h_ask_calls,                 \* arguments of the calls of RAGPipeline.ask, in order
    h_response,                  \* the HTTP response of the handler
    i_pc,                        \* position inside the POST /ingest handler
    i_directory,                 \* the files under data/docs
    i_documents,                 \* load_documents_from_directory("data/docs")
    i_chunks,                    \* chunk_documents(documents, 2000, 200)
    i_lc_documents,              \* the LangChain Documents built from the chunks
    i_index,                     \* records of the LangChain Chroma collection
    i_next_id,                   \* number of record ids the vector store generated so far
    i_responses,                 \* the HTTP responses of the ingest runs, in order
    i_counts,                    \* number of records in the collection after each run
    t_pc,                        \* position of every concurrent upsert_chunks call
    t_args,                      \* the chunk_id and embedding dimension each call writes
    t_error,                     \* message of the exception each call raised, or NoError
    backend,                     \* the collection the Chroma client holds under the name
    self_collection,             \* the collection self.collection refers to
    q_pc,                        \* position of the concurrent query call
    q_dim,                       \* dimension of the query embedding
    q_result                     \* how the concurrent query ended

ask_vars == <<pc, question, mode, top_k, has_relevance_scores,
              retrieved_docs_with_scores, citations, meaningful_citations,
              prompt, llm_response, result, propagated, calls>>
chunk_vars == <<c_pc, text, chunk_size_chars, overlap_chars, start,
                chunk_index, chunks, c_raised, windows>>
store_vars == <<collection, col_dim, s_op, s_raised, s_log, query_result,
                raw_distances, count_result, written, hist_ok, reset_wiped>>
snippet_vars == <<sn_pc, sn_text, sn_max_length, sn_result>>
\* the variables of the specifications that follow the first three
handler_vars == <<h_pc, h_request, h_settings, h_built, h_ask_calls, h_response>>
ingest_vars == <<i_pc, i_directory, i_documents, i_chunks, i_lc_documents,
                 i_index, i_next_id, i_responses, i_counts>>
conc_vars == <<t_pc, t_args, t_error, backend, self_collection, q_pc, q_dim, q_result>>
aux_vars == <<snippet_vars, handler_vars, ingest_vars, conc_vars>>
vars == <<ask_vars, chunk_vars, store_vars, aux_vars>>

---------------------------------------------------------------------------
(* Bounds of the model *)

\* largest top_k a request asks for
MaxTopK == 2
\* longest document text given to chunk_document
MaxDocLen == 5
\* largest chunk_size_chars / overlap_chars given to chunk_document
MaxChunkParam == 3

---------------------------------------------------------------------------
(* Python string helpers *)

Min(S) == CHOOSE x \in S : \A y \in S : x <= y

\* n copies of the character c
Rep(c, n) == [i \in 1..n |-> c]

\* index of the first non-blank character of s, Len(s) + 1 when none
FirstNonBlank(s) ==
    IF \A i \in 1..Len(s) : s[i] = " " THEN Len(s) + 1
    ELSE CHOOSE i \in 1..Len(s) : s[i] # " " /\ \A j \in 1..(i - 1) : s[j] = " "

\* index of the last non-blank character of s, 0 when none
LastNonBlank(s) ==
    IF \A i \in 1..Len(s) : s[i] = " " THEN 0
    ELSE CHOOSE i \in 1..Len(s) : s[i] # " " /\ \A j \in (i + 1)..Len(s) : s[j] = " "

\* str.strip(): drop leading and trailing whitespace
Strip(s) == SubSeq(s, FirstNonBlank(s), LastNonBlank(s))

\* s[:n] with Python's slice rules (a negative n counts from the end)
Slice(s, n) ==
    IF n >= 0 THEN SubSeq(s, 1, IF n < Len(s) THEN n ELSE Len(s))
    ELSE SubSeq(s, 1, IF Len(s) + n > 0 THEN Len(s) + n ELSE 0)

\* s.rfind(c): 0-based index of the last occurrence of c, -1 when absent
RFind(s, c) ==
    IF \A i \in 1..Len(s) : s[i] # c THEN -1
    ELSE (CHOOSE i \in 1..Len(s) : s[i] = c /\ \A j \in (i + 1)..Len(s) : s[j] # c) - 1

\* dict.get(key, default)
DictGet(d, key, default) == IF key \in DOMAIN d THEN d[key] ELSE default

---------------------------------------------------------------------------
(* Fixed answers of RAGPipeline.ask *)

MsgProvideQuestion == <<"Please provide a specific question for me to answer.">>
MsgNotIndexed == <<"I don't have enough information in the docs to answer that. Please make sure documents have been ingested using the /ingest endpoint first.">>
MsgSearchError == <<"I encountered an error searching for relevant information. Please try again.">>
MsgInsufficient == <<"I don't have enough information in the docs to answer that.">>
MsgPrepareError == <<"I encountered an error preparing the response. Please try again.">>
MsgGenerateError == <<"I encountered an error generating the response. Please try again.">>
MsgUnable == <<"I was unable to generate a response.">>
MsgUnexpected == <<"I encountered an unexpected error. Please try again.">>

NoResult == [answer |-> <<>>, citations |-> <<>>, returned |-> FALSE]
Returned(answer, cits) == [answer |-> answer, citations |-> cits]

---------------------------------------------------------------------------
(* _create_snippet *)

DefaultMaxLength == 200
MinScore == 10
MinSnippetLen == 20

\* x > max_length * 0.7, compared as Python compares an int with the float product
GreaterThan07(x, max_length) == 10 * x > 7 * max_length

CreateSnippet(txt, max_length) ==
    LET t == Strip(txt)
        truncated == Slice(t, max_length)
        last_period == RFind(truncated, ".")
        last_space == RFind(truncated, " ")
    IN  IF Len(t) <= max_length THEN t
        ELSE IF GreaterThan07(last_period, max_length)
             THEN Slice(t, last_period + 1)
        ELSE IF GreaterThan07(last_space, max_length)
             THEN Slice(t, last_space) \o <<".", ".", ".">>
        ELSE Slice(t, max_length - 3) \o <<".", ".", ".">>

---------------------------------------------------------------------------
(* What the external capabilities can hand to ask *)

\* Python's None where a string is expected
None == "<None>"

\* the corpus: texts of the indexed documents, by document number
DocIds == 1..5
DocText(d) ==
    CASE d = 1 -> Rep(" ", 2)                                    \* blank
      [] d = 2 -> Rep(" ", 3) \o Rep("a", 19) \o Rep(" ", 3)     \* 25 characters, 19 after trimming
      [] d = 3 -> Rep("a", 20)                                   \* exactly 20 characters
      [] d = 4 -> Rep("a", 25)                                   \* 25 characters
      [] d = 5 -> Rep("a", 205)                                  \* longer than a snippet

DocName(d) ==
    CASE d = 1 -> "d1" [] d = 2 -> "d2" [] d = 3 -> "d3"
      [] d = 4 -> "d4" [] d = 5 -> "d5"

\* metadata stored with a document; document 3 was stored without any
DocMetadata(d) ==
    IF d = 3 THEN [start |-> 0]
    ELSE [doc_id |-> DocName(d), title |-> "Title", chunk_id |-> "chunk_0", start |-> 0]

\* relevance scores lie in [0, 1]; distances are only bounded below
RelevanceScores == {5, 10, 20}
DistanceScores == {5, 20, 1500}

Hit(d, s) == [d |-> d, page_content |-> DocText(d), text_is_str |-> TRUE,
              metadata |-> DocMetadata(d), score |-> s]
\* an item whose page_content is None instead of a str
MalformedHit(s) == [d |-> 0, page_content |-> <<>>, text_is_str |-> FALSE,
                    metadata |-> [start |-> 0], score |-> s]

Hits(rel) ==
    LET scores == IF rel THEN RelevanceScores ELSE DistanceScores
    IN  {Hit(d, s) : d \in DocIds, s \in scores} \cup {MalformedHit(Min(scores))}

\* a search returns at most k distinct documents, best first
SearchResults(k, rel) ==
    {r \in UNION {[1..n -> Hits(rel)] : n \in 0..k} :
        /\ \A i, j \in 1..Len(r) : i < j => r[i].d # r[j].d
        /\ \A i, j \in 1..Len(r) : i < j =>
              IF rel THEN r[i].score >= r[j].score ELSE r[i].score <= r[j].score}

\* messages of the exceptions a search can raise, as sequences of words
SearchErrors ==
    { <<"Embeddings failure">>,
      <<"Collection ", "does not exist">>,
      <<"Model ", "Not Found">>,
      <<"EMPTY", " response">>,
      <<>> }

\* str.lower() on the words above
Lower(w) ==
    CASE w = "Not Found" -> "not found"
      [] w = "EMPTY" -> "empty"
      [] OTHER -> w

\* needle in str(e).lower()
ContainsLower(msg, needle) == \E i \in 1..Len(msg) : Lower(msg[i]) = needle

\* the response object of llm.invoke: .text and .content may be missing,
\* .content may be a list of parts, str(response) is its repr
Absent == [kind |-> "absent", val |-> <<>>]
StrVal(s) == [kind |-> "str", val |-> s]
ListVal == [kind |-> "list", val |-> <<"part">>]

LLMTexts == {Absent, StrVal(<<>>), StrVal(<<" ">>), StrVal(<<" ", "a", " ">>)}
LLMContents == {Absent, StrVal(<<"b", " ">>), ListVal}
LLMReprs == {<<>>, <<"r">>}
LLMResponses == [text : LLMTexts, content : LLMContents, repr : LLMReprs]

Questions == {<<>>, <<" ">>, <<" ", "q">>}
\* "NONE" stands for a mode that is not a str
Modes == {"general", " Checklist", "NONE"}

---------------------------------------------------------------------------
(* Helpers of RAGPipeline *)

\* variant: the citations come out in the opposite order
ConvertReversed(docs_with_scores) ==
    [i \in 1..Len(docs_with_scores) |->
        LET h == docs_with_scores[Len(docs_with_scores) + 1 - i]
        IN  [doc_id |-> DictGet(h.metadata, "doc_id", "unknown"),
             title |-> DictGet(h.metadata, "title", None),
             chunk_id |-> DictGet(h.metadata, "chunk_id", None),
             snippet |-> CreateSnippet(h.page_content, DefaultMaxLength),
             score |-> h.score]]

\* one citation dict per (Document, score) pair, in order
ConvertLangchainDocsToCitations(docs_with_scores) ==
    [i \in 1..Len(docs_with_scores) |->
        LET h == docs_with_scores[i]
        IN  [doc_id |-> DictGet(h.metadata, "doc_id", "unknown"),
             title |-> DictGet(h.metadata, "title", None),
             chunk_id |-> DictGet(h.metadata, "chunk_id", None),
             snippet |-> CreateSnippet(h.page_content, DefaultMaxLength),
             score |-> h.score]]

\* _create_snippet(None) raises AttributeError on text.strip()
ConvertRaises(docs_with_scores) ==
    \E i \in 1..Len(docs_with_scores) : ~docs_with_scores[i].text_is_str

\* variant: a snippet of exactly MinSnippetLen characters is dropped too
IsMeaningfulStrictLength(citation, min_score) ==
    LET snippet == Strip(citation.snippet)
    IN  /\ snippet # <<>>
        /\ ~(citation.score < min_score)
        /\ ~(Len(snippet) <= MinSnippetLen)

\* the test the loop of _filter_meaningful_citations applies to one citation
IsMeaningful(citation, min_score) ==
    LET snippet == Strip(citation.snippet)
    IN  /\ snippet # <<>>
        /\ ~(citation.score < min_score)
        /\ ~(Len(snippet) < MinSnippetLen)

\* variant: the score threshold is not applied
FilterIgnoringScore(cits, min_score) ==
    LET Keep(c) == IsMeaningful(c, 0)
    IN  IF cits = <<>> THEN <<>> ELSE SelectSeq(cits, Keep)

FilterMeaningfulCitations(cits, min_score) ==
    LET Keep(c) == IsMeaningful(c, min_score)
    IN  IF cits = <<>> THEN <<>> ELSE SelectSeq(cits, Keep)

\* variant: the chunks are handed to the prompt builder in reverse order
CitationsToChunksReversed(cits) ==
    [i \in 1..Len(cits) |->
        [doc_id |-> cits[Len(cits) + 1 - i].doc_id,
         chunk_id |-> cits[Len(cits) + 1 - i].chunk_id,
         title |-> cits[Len(cits) + 1 - i].title,
         text |-> cits[Len(cits) + 1 - i].snippet,
         start |-> None,
         end |-> None,
         score |-> cits[Len(cits) + 1 - i].score]]

CitationsToChunks(cits) ==
    [i \in 1..Len(cits) |->
        [doc_id |-> cits[i].doc_id,
         chunk_id |-> cits[i].chunk_id,
         title |-> cits[i].title,
         text |-> cits[i].snippet,
         start |-> None,
         end |-> None,
         score |-> cits[i].score]]

---------------------------------------------------------------------------
(* services/prompts.py *)

MODE_TEMPLATES == {"general", "checklist", "plain_english"}

\* mode.lower().strip()
ModeLowerStrip(m) == IF m = " Checklist" THEN "checklist" ELSE m

\* the template the prompt carries
GetModeInstructions(m) ==
    IF ModeLowerStrip(m) \in MODE_TEMPLATES THEN ModeLowerStrip(m) ELSE "general"

\* the numbered SOURCES block: entry i of the input is labelled Source [i];
\* entries with blank text are skipped and their number is not reused
FormatSources(chunks_in) ==
    LET entry(i) == [index |-> i,
                     title |-> chunks_in[i].title,
                     doc_id |-> chunks_in[i].doc_id,
                     text |-> Strip(chunks_in[i].text)]
        all == [i \in 1..Len(chunks_in) |-> entry(i)]
        NonBlank(e) == e.text # <<>>
    IN  IF chunks_in = <<>> THEN [header |-> "No sources provided.", entries |-> <<>>]
        ELSE [header |-> "SOURCES:", entries |-> SelectSeq(all, NonBlank)]

ValidateChunks(chunks_in) ==
    LET Valid(c) == Strip(c.text) # <<>>
    IN  SelectSeq(chunks_in, Valid)

BuildPrompt(q, chunks_in, m) ==
    [kind |-> "sources",
     instructions |-> GetModeInstructions(m),
     sources |-> FormatSources(chunks_in),
     question |-> Strip(q)]

BuildPromptNoSources(q, m) ==
    [kind |-> "no_sources",
     instructions |-> "none",
     sources |-> [header |-> "SOURCES:", entries |-> <<>>],
     question |-> Strip(q)]

BuildRagPrompt(q, chunks_in, m) ==
    LET valid_chunks == IF chunks_in # <<>> THEN ValidateChunks(chunks_in) ELSE <<>>
    IN  IF valid_chunks # <<>> THEN BuildPrompt(q, valid_chunks, m)
        ELSE BuildPromptNoSources(q, m)

\* build_rag_prompt raises ValueError on a blank question, and mode.lower()
\* raises AttributeError on a mode that is not a str when sources are rendered
BuildRagPromptRaises(q, chunks_in, m) ==
    \/ q = <<>>
    \/ Strip(q) = <<>>
    \/ /\ chunks_in # <<>>
       /\ ValidateChunks(chunks_in) # <<>>
       /\ m = "NONE"

NoPrompt == [kind |-> "none", instructions |-> "none",
             sources |-> [header |-> "", entries |-> <<>>], question |-> <<>>]

---------------------------------------------------------------------------
(* RAGPipeline.ask, one action per step of the method *)

\* variant: only the empty string is rejected
IsBlankQuestionNoStrip(q) == q = <<>>

\* not question or not question.strip()
IsBlankQuestion(q) == q = <<>> \/ Strip(q) = <<>>

\* a return statement of ask
Return(answer, cits) ==
    /\ result' = Returned(answer, cits)
    /\ propagated' = FALSE
    /\ pc' = "done"

\* variant: no outermost except clause, the exception reaches the caller
PropagateUnexpected ==
    /\ result' = NoResult
    /\ propagated' = TRUE
    /\ pc' = "done"

\* the outermost except clause: any exception not caught by an inner try
CatchUnexpected == Return(MsgUnexpected, <<>>)

\* the answer of the except clause around the search
SearchFailureAnswer(e) ==
    IF \/ ContainsLower(e, "does not exist")
       \/ ContainsLower(e, "not found")
       \/ ContainsLower(e, "empty")
    THEN MsgNotIndexed
    ELSE MsgSearchError

\* variant: the preparation-error fallback keeps the surviving citations
PrepareFailureKeepsCitations == Return(MsgPrepareError, meaningful_citations)

\* the except clause around the prompt builder
PrepareFailure == Return(MsgPrepareError, <<>>)

\* variant: the generation-error fallback keeps the surviving citations
GenerateFailureKeepsCitations == Return(MsgGenerateError, meaningful_citations)

\* the except clause around the LLM call
GenerateFailure == Return(MsgGenerateError, <<>>)

\* an entry of the log of external calls: which capability, and whether it returned
Call(op, ok) == [op |-> op, ok |-> ok]
Called(op) == \E i \in 1..Len(calls) : calls[i].op = op
Succeeded(op) == \E i \in 1..Len(calls) : calls[i] = Call(op, TRUE)
Failed(op) == \E i \in 1..Len(calls) : calls[i] = Call(op, FALSE)

Truthy(v) == v.kind # "absent" /\ v.val # <<>>

\* the text ask takes out of the LLM response
ExtractResponseText(response) ==
    IF Truthy(response.text) THEN response.text
    ELSE IF Truthy(response.content) THEN response.content
    ELSE StrVal(response.repr)

\* llm_response.strip() if llm_response else "I was unable to generate a response."
FinalAnswer(llm_text) == IF llm_text # <<>> THEN Strip(llm_text) ELSE MsgUnable

\* entry and input validation
Ask(q, m, k) ==
    /\ pc = "idle"
    /\ question' = q
    /\ mode' = m
    /\ top_k' = k
    /\ IF IsBlankQuestion(q)
       THEN Return(MsgProvideQuestion, <<>>)
       ELSE /\ pc' = "retrieve"
            /\ UNCHANGED <<result, propagated>>
    /\ UNCHANGED <<has_relevance_scores, retrieved_docs_with_scores, citations,
                   meaningful_citations, prompt, llm_response, calls, chunk_vars, store_vars, aux_vars>>

\* step 1: the vector store search and its except clause
Retrieve ==
    /\ pc = "retrieve"
    /\ \/ \E r \in SearchResults(top_k, has_relevance_scores) :
            /\ calls' = Append(calls, Call("search", TRUE))
            /\ retrieved_docs_with_scores' = r
            /\ pc' = "convert"
            /\ UNCHANGED <<result, propagated>>
       \/ \E e \in SearchErrors :
            /\ calls' = Append(calls, Call("search", FALSE))
            /\ Return(SearchFailureAnswer(e), <<>>)
            /\ UNCHANGED retrieved_docs_with_scores
    /\ UNCHANGED <<question, mode, top_k, has_relevance_scores, citations,
                   meaningful_citations, prompt, llm_response, chunk_vars, store_vars, aux_vars>>

\* step 2: documents to citations
Convert ==
    /\ pc = "convert"
    /\ IF ConvertRaises(retrieved_docs_with_scores)
       THEN /\ CatchUnexpected
            /\ UNCHANGED citations
       ELSE /\ citations' = ConvertLangchainDocsToCitations(retrieved_docs_with_scores)
            /\ pc' = "filter"
            /\ UNCHANGED <<result, propagated>>
    /\ UNCHANGED <<question, mode, top_k, has_relevance_scores,
                   retrieved_docs_with_scores, meaningful_citations, prompt,
                   llm_response, calls, chunk_vars, store_vars, aux_vars>>

\* step 3: the relevance filter and the no-citation fallback
Filter ==
    /\ pc = "filter"
    /\ meaningful_citations' = FilterMeaningfulCitations(citations, MinScore)
    /\ IF meaningful_citations' = <<>>
       THEN Return(MsgInsufficient, <<>>)
       ELSE /\ pc' = "prompt"
            /\ UNCHANGED <<result, propagated>>
    /\ UNCHANGED <<question, mode, top_k, has_relevance_scores,
                   retrieved_docs_with_scores, citations, prompt, llm_response,
                   calls, chunk_vars, store_vars, aux_vars>>

\* step 4: the prompt builder and its except clause
Prompt ==
    /\ pc = "prompt"
    /\ LET chunks_for_prompt == CitationsToChunks(meaningful_citations)
       IN  IF BuildRagPromptRaises(Strip(question), chunks_for_prompt, mode)
           THEN /\ calls' = Append(calls, Call("prompt", FALSE))
                /\ PrepareFailure
                /\ UNCHANGED prompt
           ELSE /\ calls' = Append(calls, Call("prompt", TRUE))
                /\ prompt' = BuildRagPrompt(Strip(question), chunks_for_prompt, mode)
                /\ pc' = "generate"
                /\ UNCHANGED <<result, propagated>>
    /\ UNCHANGED <<question, mode, top_k, has_relevance_scores,
                   retrieved_docs_with_scores, citations, meaningful_citations,
                   llm_response, chunk_vars, store_vars, aux_vars>>

\* step 5: the LLM call, the extraction of its text and their except clause
Generate ==
    /\ pc = "generate"
    /\ \/ \E response \in LLMResponses :
            /\ calls' = Append(calls, Call("llm", TRUE))
            /\ llm_response' = ExtractResponseText(response)
            /\ pc' = "finish"
            /\ UNCHANGED <<result, propagated>>
       \/ /\ calls' = Append(calls, Call("llm", FALSE))
          /\ GenerateFailure
          /\ UNCHANGED llm_response
    /\ UNCHANGED <<question, mode, top_k, has_relevance_scores,
                   retrieved_docs_with_scores, citations, meaningful_citations,
                   prompt, chunk_vars, store_vars, aux_vars>>

\* step 6: the final result; strip() on a list raises AttributeError
Finish ==
    /\ pc = "finish"
    /\ IF llm_response.kind = "list"
       THEN CatchUnexpected
       ELSE Return(FinalAnswer(llm_response.val), meaningful_citations)
    /\ UNCHANGED <<question, mode, top_k, has_relevance_scores,
                   retrieved_docs_with_scores, citations, meaningful_citations,
                   prompt, llm_response, calls, chunk_vars, store_vars, aux_vars>>

AskIdle ==
    /\ pc = "idle"
    /\ question = <<>>
    /\ mode = "general"
    /\ top_k = 1
    /\ retrieved_docs_with_scores = <<>>
    /\ citations = <<>>
    /\ meaningful_citations = <<>>
    /\ prompt = NoPrompt
    /\ llm_response = Absent
    /\ result = NoResult
    /\ propagated = FALSE
    /\ calls = <<>>

ChunkOff ==
    /\ c_pc = "off"
    /\ text = <<>>
    /\ chunk_size_chars = 1
    /\ overlap_chars = 0
    /\ start = 0
    /\ chunk_index = 0
    /\ chunks = <<>>
    /\ c_raised = FALSE
    /\ windows = <<>>

\* no exception
NoError == <<>>

\* arguments recorded for the last ChromaVectorStore call
StoreOp(name, n_chunks, n_embeddings, k, dim) ==
    [name |-> name, n_chunks |-> n_chunks, n_embeddings |-> n_embeddings,
     top_k |-> k, dim |-> dim]

\* a collection that create_collection just made
EmptyCollection == [id \in {} |-> {}]

\* the store after __init__ on a fresh persist directory
StoreFresh ==
    /\ collection = EmptyCollection
    /\ col_dim = 0
    /\ s_op = StoreOp("init", 0, 0, 0, 0)
    /\ s_raised = NoError
    /\ s_log = <<>>
    /\ query_result = <<>>
    /\ raw_distances = <<>>
    /\ count_result = 0
    /\ written = EmptyCollection
    /\ hist_ok = TRUE
    /\ reset_wiped = FALSE

\* no _create_snippet call is being checked
SnippetOff ==
    /\ sn_pc = "off"
    /\ sn_text = <<>>
    /\ sn_max_length = 0
    /\ sn_result = <<>>

\* no HTTP response yet
NoResponse == [status |-> 0, answer |-> <<>>, citations |-> <<>>, detail |-> <<>>]

\* no POST /ask request is being handled
HandlerOff ==
    /\ h_pc = "off"
    /\ h_request = [question |-> <<>>, mode |-> "general", trace_id |-> "unknown"]
    /\ h_settings = [EMBED_PROVIDER |-> "gemini", LLM_PROVIDER |-> "gemini"]
    /\ h_built = {}
    /\ h_ask_calls = <<>>
    /\ h_response = NoResponse

\* no POST /ingest request was made
IngestOff ==
    /\ i_pc = "off"
    /\ i_directory = {}
    /\ i_documents = <<>>
    /\ i_chunks = <<>>
    /\ i_lc_documents = <<>>
    /\ i_index = {}
    /\ i_next_id = 0
    /\ i_responses = <<>>
    /\ i_counts = <<>>

\* the concurrent callers of one ChromaVectorStore
Writers == {"w1", "w2"}

\* the collection of generation gen under the store's name
Collection(gen, dim, records) ==
    [exists |-> TRUE, gen |-> gen, dim |-> dim, records |-> records]

\* no concurrent calls are being checked
ConcOff ==
    /\ t_pc = [w \in Writers |-> "off"]
    /\ t_args = [w \in Writers |-> [chunk_id |-> "c1", dim |-> 2]]
    /\ t_error = [w \in Writers |-> NoError]
    /\ backend = Collection(1, 0, EmptyCollection)
    /\ self_collection = 1
    /\ q_pc = "off"
    /\ q_dim = 2
    /\ q_result = "none"

AuxOff == SnippetOff /\ HandlerOff /\ IngestOff /\ ConcOff

Init ==
    /\ AskIdle
    /\ has_relevance_scores \in BOOLEAN
    /\ ChunkOff
    /\ StoreFresh
    /\ AuxOff

Next ==
    \/ \E q \in Questions, m \in Modes, k \in 1..MaxTopK : Ask(q, m, k)
    \/ Retrieve
    \/ Convert
    \/ Filter
    \/ Prompt
    \/ Generate
    \/ Finish

Spec == Init /\ [][Next]_vars

---------------------------------------------------------------------------
(* utils/chunking.py: chunk_document, one action per loop iteration *)

\* f"{doc_id}_chunk_{chunk_index}"
ChunkId(doc_id, index) == <<doc_id, "_chunk_", index>>

\* text[a:b] for 0 <= a <= b
Substr(s, a, b) == SubSeq(s, a + 1, IF b < Len(s) THEN b ELSE Len(s))

Chunk(doc_id, index, s, e, chunk_text) ==
    [doc_id |-> doc_id, chunk_id |-> ChunkId(doc_id, index),
     start |-> s, end |-> e, text |-> chunk_text, title |-> "Title"]

\* variant: the overlap is added to the window size instead of subtracted
StepSizeSum(size, overlap) == size + overlap

\* step_size = chunk_size_chars - overlap_chars
StepSize(size, overlap) == size - overlap

\* variant: windows that are blank after trimming are emitted too
ShouldEmitAlways(chunk_text) == TRUE

\* if chunk_text: only a window with text left after trimming becomes a chunk
ShouldEmit(chunk_text) == chunk_text # <<>>

\* variant: a dropped window consumes a chunk index
NextChunkIndexAlways(index, emitted) == index + 1

\* chunk_index += 1 happens inside the if that emits the chunk
NextChunkIndex(index, emitted) == IF emitted THEN index + 1 ELSE index

\* variant: the difference is returned even when the chunks do not overlap
GetChunkOverlapSigned(chunk1, chunk2) ==
    IF chunk1.doc_id # chunk2.doc_id THEN 0
    ELSE LET first_chunk == IF chunk1.start <= chunk2.start THEN chunk1 ELSE chunk2
             second_chunk == IF chunk1.start <= chunk2.start THEN chunk2 ELSE chunk1
         IN  first_chunk.end - second_chunk.start

GetChunkOverlap(chunk1, chunk2) ==
    IF chunk1.doc_id # chunk2.doc_id THEN 0
    ELSE LET first_chunk == IF chunk1.start <= chunk2.start THEN chunk1 ELSE chunk2
             second_chunk == IF chunk1.start <= chunk2.start THEN chunk2 ELSE chunk1
         IN  IF first_chunk.end > second_chunk.start
             THEN first_chunk.end - second_chunk.start
             ELSE 0

\* the checks before the loop, in the order the function makes them
ChunkStart ==
    /\ c_pc = "start"
    /\ IF Strip(text) = <<>>
       THEN /\ chunks' = <<>>
            /\ c_raised' = FALSE
            /\ c_pc' = "done"
       ELSE IF Len(text) <= chunk_size_chars
       THEN /\ chunks' = <<Chunk("doc", 0, 0, Len(text), text)>>
            /\ c_raised' = FALSE
            /\ c_pc' = "done"
       ELSE IF StepSize(chunk_size_chars, overlap_chars) <= 0
       THEN /\ c_raised' = TRUE
            /\ c_pc' = "done"
            /\ UNCHANGED chunks
       ELSE /\ c_pc' = "loop"
            /\ UNCHANGED <<chunks, c_raised>>
    /\ UNCHANGED <<text, chunk_size_chars, overlap_chars, start, chunk_index,
                   windows, ask_vars, store_vars, aux_vars>>

\* variant: the loop has no break and runs until start passes the end of the text
ReachedEndNever(end, text_length) == FALSE

\* if end >= text_length: break
ReachedEnd(end, text_length) == end >= text_length

\* one pass through the while loop
ChunkLoop ==
    /\ c_pc = "loop"
    /\ IF start < Len(text)
       THEN LET end == IF start + chunk_size_chars < Len(text)
                       THEN start + chunk_size_chars ELSE Len(text)
                chunk_text == Strip(Substr(text, start, end))
            IN  /\ chunks' = IF ShouldEmit(chunk_text)
                              THEN Append(chunks, Chunk("doc", chunk_index, start, end, chunk_text))
                              ELSE chunks
                /\ chunk_index' = NextChunkIndex(chunk_index, ShouldEmit(chunk_text))
                /\ start' = start + StepSize(chunk_size_chars, overlap_chars)
                /\ windows' = Append(windows, [start |-> start, end |-> end])
                /\ c_pc' = IF ReachedEnd(end, Len(text)) THEN "done" ELSE "loop"
       ELSE /\ c_pc' = "done"
            /\ UNCHANGED <<chunks, chunk_index, start, windows>>
    /\ UNCHANGED <<text, chunk_size_chars, overlap_chars, c_raised, ask_vars, store_vars, aux_vars>>

\* document texts: every string of blanks and letters up to MaxDocLen
DocTexts == UNION {[1..n -> {" ", "a"}] : n \in 0..MaxDocLen}

ChunkInit ==
    /\ AskIdle
    /\ has_relevance_scores = TRUE
    /\ StoreFresh
    /\ AuxOff
    /\ c_pc = "start"
    /\ text \in DocTexts
    /\ chunk_size_chars \in 1..MaxChunkParam
    /\ overlap_chars \in 0..(MaxChunkParam + 1)
    /\ start = 0
    /\ chunk_index = 0
    /\ chunks = <<>>
    /\ c_raised = FALSE
    /\ windows = <<>>

ChunkNext ==
    \/ ChunkStart
    \/ ChunkLoop

ChunkSpec == ChunkInit /\ [][ChunkNext]_vars

\* chunk_document is a sequential function: once called, it keeps executing
ChunkFairSpec == ChunkSpec /\ WF_vars(ChunkNext)

---------------------------------------------------------------------------
(* ChromaVectorStore (services/retrieval.py).  An embedding vector is      *)
(* modelled by its dimension, 0 being the empty list; the distances of a   *)
(* query are chosen by the backend.                                        *)

MaxBatch == 2

StoreIds == {"c1", "c2"}
Dims == {0, 2, 3}

\* chunk dicts handed to upsert_chunks: two versions of c1, one of c2, a
\* chunk without the chunk_id key and one with an empty chunk_id
StoreChunk(id, txt, title) == [chunk_id |-> id, text |-> txt, doc_id |-> "doc", title |-> title]
StoreChunks ==
    { StoreChunk("c1", "old", "Original Title"),
      StoreChunk("c1", "new", None),
      StoreChunk("c2", "old", "Original Title"),
      [text |-> "old", doc_id |-> "doc", title |-> None],
      StoreChunk("", "old", None) }

Batches == UNION {[1..n -> StoreChunks] : n \in 0..MaxBatch}

\* n embedding vectors of dimension d
Embeddings(n, d) == [i \in 1..n |-> d]
EmbeddingLists == {Embeddings(n, d) : n \in 0..MaxBatch, d \in Dims}

\* messages of the exceptions of upsert_chunks and of the backend
MsgCountMismatch == <<"Chunks count must match embeddings count">>
MsgMissingChunkId == <<"Chunk missing required 'chunk_id' field">>
MsgDimensionMismatch == <<"Embedding ", "dimension", " 3 does not match collection dimensionality 2">>
MsgInvalidEmbedding == <<"Expected each embedding to be a 1-", "dimension", "al numpy array with at least 1 value">>
MsgDuplicateIds == <<"Expected IDs to be unique">>
MsgBackendFailure == <<"database or disk is full">>

\* not chunk_id
IsFalsy(v) == v = None \/ v = ""

\* ids.append(chunk_id)
UpsertIds(batch) == [i \in 1..Len(batch) |-> DictGet(batch[i], "chunk_id", None)]

\* variant: the texts are paired with the ids in reverse order
UpsertDocumentsReversed(batch) ==
    [i \in 1..Len(batch) |-> DictGet(batch[Len(batch) + 1 - i], "text", "")]

\* documents.append(chunk.get('text', ''))
UpsertDocuments(batch) == [i \in 1..Len(batch) |-> DictGet(batch[i], "text", "")]

\* the metadata dict of a chunk without its None values, as key-value pairs
MetaKeys == {"doc_id", "title", "start", "end"}
Metadata(chunk) ==
    { <<k, DictGet(chunk, k, None)>> : k \in {j \in MetaKeys : DictGet(chunk, j, None) # None} }
UpsertMetadatas(batch) == [i \in 1..Len(batch) |-> Metadata(batch[i])]

\* one entry of s_log
Event(call, error) == [call |-> call, error |-> error]
LogWarning == Event("warning", NoError)

\* collection.upsert: the exception it raises, or NoError.  The embeddings
\* and the ids are validated first, then the write can fail in the backend,
\* then the dimension is compared with the collection's.
BackendUpsertError(dim, ids, embeddings, fails) ==
    IF \E i \in 1..Len(embeddings) : embeddings[i] = 0 THEN MsgInvalidEmbedding
    ELSE IF \E i, j \in 1..Len(ids) : i # j /\ ids[i] = ids[j] THEN MsgDuplicateIds
    ELSE IF fails THEN MsgBackendFailure
    ELSE IF dim # 0 /\ embeddings[1] # dim THEN MsgDimensionMismatch
    ELSE NoError

\* collection.upsert: the records after a write that succeeded
UpsertInto(col, ids, documents, metadatas) ==
    LET new_ids == {ids[i] : i \in 1..Len(ids)}
        At(id) == CHOOSE i \in 1..Len(ids) : ids[i] = id
    IN  [id \in (DOMAIN col) \cup new_ids |->
            IF id \in new_ids
            THEN [document |-> documents[At(id)], metadata |-> metadatas[At(id)]]
            ELSE col[id]]

\* what one upsert_chunks call does to the store
Outcome(col, dim, raised, log) == [collection |-> col, col_dim |-> dim, raised |-> raised, log |-> log]

\* the call appears in the log
Logged(log, call) == \E i \in 1..Len(log) : log[i].call = call

\* "dimension" in str(e).lower()
IsDimensionError(e) == ContainsLower(e, "dimension")

\* upsert_chunks; fail_at is the backend call that fails for a reason of the
\* backend's own: 1 the first write, 2 delete_collection, 3 the retry, 0 none
UpsertChunks(batch, embeddings, fail_at) ==
    LET ids == UpsertIds(batch)
        documents == UpsertDocuments(batch)
        metadatas == UpsertMetadatas(batch)
        first == BackendUpsertError(col_dim, ids, embeddings, fail_at = 1)
        retry == BackendUpsertError(0, ids, embeddings, fail_at = 3)
    IN  IF batch = <<>> \/ embeddings = <<>>
        THEN Outcome(collection, col_dim, NoError, <<LogWarning>>)
        ELSE IF Len(batch) # Len(embeddings)
        THEN Outcome(collection, col_dim, MsgCountMismatch, <<>>)
        ELSE IF \E i \in 1..Len(ids) : IsFalsy(ids[i])
        THEN Outcome(collection, col_dim, MsgMissingChunkId, <<>>)
        ELSE IF first = NoError
        THEN Outcome(UpsertInto(collection, ids, documents, metadatas), embeddings[1],
                     NoError, <<Event("upsert", NoError)>>)
        ELSE IF ~IsDimensionError(first)
        THEN Outcome(collection, col_dim, first, <<Event("upsert", first)>>)
        ELSE IF fail_at = 2
        THEN Outcome(collection, col_dim, MsgBackendFailure,
                     <<Event("upsert", first), LogWarning,
                       Event("delete_collection", MsgBackendFailure)>>)
        ELSE IF retry = NoError
        THEN Outcome(UpsertInto(EmptyCollection, ids, documents, metadatas), embeddings[1],
                     NoError,
                     <<Event("upsert", first), LogWarning,
                       Event("delete_collection", NoError),
                       Event("create_collection", NoError), Event("upsert", NoError)>>)
        ELSE Outcome(EmptyCollection, 0, retry,
                     <<Event("upsert", first), LogWarning,
                       Event("delete_collection", NoError),
                       Event("create_collection", NoError), Event("upsert", retry)>>)

\* the content of the chunk of the batch that carries chunk_id id, and
\* whether that id was written before
Latest(batch, id) ==
    LET chunk == batch[CHOOSE i \in 1..Len(batch) : DictGet(batch[i], "chunk_id", None) = id]
    IN  [document |-> chunk.text, metadata |-> Metadata(chunk),
         rewritten |-> id \in DOMAIN written]

Upsert(batch, embeddings, fail_at) ==
    \E out \in {UpsertChunks(batch, embeddings, fail_at)} :
    LET wrote == out.raised = NoError /\ Logged(out.log, "upsert")
        batch_ids == {DictGet(batch[i], "chunk_id", None) : i \in 1..Len(batch)}
    IN  /\ collection' = out.collection
        /\ col_dim' = out.col_dim
        /\ s_op' = StoreOp("upsert", Len(batch), Len(embeddings), 0, 0)
        /\ s_raised' = out.raised
        /\ s_log' = out.log
        /\ written' = IF ~(hist_ok /\ out.raised = NoError /\ ~Logged(out.log, "delete_collection"))
                      THEN EmptyCollection
                      ELSE IF wrote
                      THEN [id \in (DOMAIN written) \cup batch_ids |->
                               IF id \in batch_ids THEN Latest(batch, id) ELSE written[id]]
                      ELSE written
        /\ hist_ok' = (hist_ok /\ out.raised = NoError /\ ~Logged(out.log, "delete_collection"))
        /\ query_result' = <<>>
        /\ raw_distances' = <<>>
        /\ count_result' = 0
        /\ reset_wiped' = (reset_wiped /\ out.collection = EmptyCollection)
        /\ UNCHANGED <<ask_vars, chunk_vars, aux_vars>>

\* variant: the collection object is kept as it is
RecreatedKeepingRecords == [collection |-> collection, col_dim |-> col_dim]

\* delete_collection then create_collection: a collection without records
\* and without a dimension
Recreated == [collection |-> EmptyCollection, col_dim |-> 0]

\* reset: delete_collection then create_collection; a failure is raised
Reset(ok) ==
    /\ s_op' = StoreOp("reset", 0, 0, 0, 0)
    /\ IF ok
       THEN /\ collection' = Recreated.collection
            /\ col_dim' = Recreated.col_dim
            /\ s_raised' = NoError
            /\ s_log' = <<Event("delete_collection", NoError), Event("create_collection", NoError)>>
            /\ written' = EmptyCollection
            /\ hist_ok' = TRUE
            /\ reset_wiped' = (reset_wiped \/ collection # EmptyCollection)
       ELSE /\ s_raised' = MsgBackendFailure
            /\ s_log' = <<Event("delete_collection", MsgBackendFailure)>>
            /\ UNCHANGED <<collection, col_dim, written, hist_ok, reset_wiped>>
    /\ query_result' = <<>>
    /\ raw_distances' = <<>>
    /\ count_result' = 0
    /\ UNCHANGED <<ask_vars, chunk_vars, aux_vars>>

\* count: the backend's count, 0 when the backend fails
Count(ok) ==
    /\ s_op' = StoreOp("count", 0, 0, 0, 0)
    /\ count_result' = IF ok THEN Cardinality(DOMAIN collection) ELSE 0
    /\ s_log' = <<Event("count", IF ok THEN NoError ELSE MsgBackendFailure)>>
    /\ s_raised' = NoError
    /\ query_result' = <<>>
    /\ raw_distances' = <<>>
    /\ UNCHANGED <<collection, col_dim, written, hist_ok, reset_wiped, ask_vars, chunk_vars, aux_vars>>

\* distances the backend can report, in thousandths: below 0 by rounding,
\* 0, inside (0, 1) and above 1
Distances == {-1, 0, 300, 1500}

\* variant: the difference is not clamped
ScoreUnclamped(distance) == 1000 - distance

\* score = max(0.0, min(1.0, 1.0 - distance))
Score(distance) ==
    LET similarity == IF 1000 - distance < 1000 THEN 1000 - distance ELSE 1000
    IN  IF similarity > 0 THEN similarity ELSE 0

\* variant: one more result is requested than top_k
NResultsPlusOne(k) == k + 1

\* n_results=top_k
NResults(k) == k

\* metadata.get(key, default)
MetaGet(metadata, key, default) ==
    IF \E p \in metadata : p[1] = key
    THEN (CHOOSE p \in metadata : p[1] = key)[2]
    ELSE default

\* collection.query: the orders in which the backend can return the
\* n_results nearest records for the distances dist, nearest first
BackendQueryOrders(col, dist, n_results) ==
    LET n == IF n_results < Cardinality(DOMAIN col) THEN n_results ELSE Cardinality(DOMAIN col)
    IN  { o \in [1..n -> DOMAIN col] :
            /\ \A i, j \in 1..n : i < j => (o[i] # o[j] /\ dist[o[i]] <= dist[o[j]])
            /\ \A id \in DOMAIN col :
                  (\A i \in 1..n : o[i] # id) => \A i \in 1..n : dist[o[i]] <= dist[id] }

\* the result dict built for one row of the backend's answer
QueryHit(chunk_id, record, distance) ==
    [doc_id |-> IF record.metadata # {} THEN MetaGet(record.metadata, "doc_id", "unknown") ELSE "unknown",
     title |-> IF record.metadata # {} THEN MetaGet(record.metadata, "title", None) ELSE None,
     chunk_id |-> chunk_id,
     text |-> record.document,
     score |-> Score(distance),
     start |-> IF record.metadata # {} THEN MetaGet(record.metadata, "start", None) ELSE None,
     end |-> IF record.metadata # {} THEN MetaGet(record.metadata, "end", None) ELSE None]

\* query: vec_dim is the dimension of query_embedding; count_ok and query_ok
\* say whether the backend's count and query calls work; the backend chooses
\* the distances and, among equal distances, the order of its answer
Query(vec_dim, k, count_ok, query_ok) ==
    LET collection_count == Cardinality(DOMAIN collection)
        counted == Event("count", IF count_ok THEN NoError ELSE MsgBackendFailure)
        error == IF ~query_ok THEN MsgBackendFailure
                 ELSE IF col_dim # 0 /\ vec_dim # col_dim THEN MsgDimensionMismatch
                 ELSE NoError
    IN  /\ s_op' = StoreOp("query", 0, 0, k, vec_dim)
        /\ IF vec_dim = 0
           THEN /\ query_result' = <<>> /\ raw_distances' = <<>>
                /\ s_raised' = NoError /\ s_log' = <<LogWarning>>
           ELSE IF count_ok /\ collection_count = 0
           THEN /\ query_result' = <<>> /\ raw_distances' = <<>>
                /\ s_raised' = NoError /\ s_log' = <<counted, LogWarning>>
           ELSE IF error # NoError
           THEN /\ query_result' = <<>> /\ raw_distances' = <<>>
                /\ s_raised' = error /\ s_log' = <<counted, Event("query", error)>>
           ELSE /\ \E dist \in [DOMAIN collection -> Distances] :
                   \E order \in BackendQueryOrders(collection, dist, NResults(k)) :
                      /\ query_result' = [i \in 1..Len(order) |->
                             QueryHit(order[i], collection[order[i]], dist[order[i]])]
                      /\ raw_distances' = [i \in 1..Len(order) |-> dist[order[i]]]
                /\ s_raised' = NoError /\ s_log' = <<counted, Event("query", NoError)>>
        /\ count_result' = 0
        /\ UNCHANGED <<collection, col_dim, written, hist_ok, reset_wiped, ask_vars, chunk_vars, aux_vars>>

\* the backend calls that can fail while upsert_chunks handles this input
FailPoints(batch, embeddings) ==
    LET first == BackendUpsertError(col_dim, UpsertIds(batch), embeddings, FALSE)
    IN  IF Len(batch) # Len(embeddings) \/ batch = <<>> THEN {0}
        ELSE IF first = NoError THEN {0, 1}
        ELSE IF IsDimensionError(first) THEN {0, 2, 3}
        ELSE {0}

StoreInit ==
    /\ AskIdle
    /\ has_relevance_scores = TRUE
    /\ ChunkOff
    /\ StoreFresh
    /\ AuxOff

StoreNext ==
    \/ \E batch \in Batches, embeddings \in EmbeddingLists :
          \E fail_at \in FailPoints(batch, embeddings) : Upsert(batch, embeddings, fail_at)
    \/ \E ok \in BOOLEAN : Reset(ok)
    \/ \E ok \in BOOLEAN : Count(ok)
    \/ \E vec_dim \in Dims, k \in 1..MaxTopK, count_ok \in BOOLEAN, query_ok \in BOOLEAN :
          Query(vec_dim, k, count_ok, query_ok)

StoreSpec == StoreInit /\ [][StoreNext]_vars

---------------------------------------------------------------------------
(* RAGPipeline._create_snippet on its own: texts of letters with at most   *)
(* one period and one space, and every max_length up to the bound          *)

MaxSnippetLength == 11

\* n letters, with a period at position p and a space at position q when
\* these lie inside the text
SnippetText(n, p, q) ==
    [i \in 1..n |-> IF i = q THEN " " ELSE IF i = p THEN "." ELSE "a"]

SnippetTexts ==
    { SnippetText(n, p, q) : n \in 0..(MaxSnippetLength + 1),
                             p \in 0..(MaxSnippetLength + 1),
                             q \in 0..(MaxSnippetLength + 1) }

CreateSnippetCall ==
    /\ sn_pc = "start"
    /\ sn_result' = CreateSnippet(sn_text, sn_max_length)
    /\ sn_pc' = "done"
    /\ UNCHANGED <<sn_text, sn_max_length, ask_vars, chunk_vars, store_vars,
                   handler_vars, ingest_vars, conc_vars>>

SnippetInit ==
    /\ AskIdle
    /\ has_relevance_scores = TRUE
    /\ ChunkOff
    /\ StoreFresh
    /\ HandlerOff
    /\ IngestOff
    /\ ConcOff
    /\ sn_pc = "start"
    /\ sn_text \in SnippetTexts
    /\ sn_max_length \in 0..MaxSnippetLength
    /\ sn_result = <<>>

SnippetNext == CreateSnippetCall

SnippetSpec == SnippetInit /\ [][SnippetNext]_vars

---------------------------------------------------------------------------
(* POST /ask (routes/ask.py), with RAGPipeline.__init__ and the request    *)
(* and response schemas of core/schemas.py                                 *)

\* the fields of AskRequest
AskRequestFields == {"question", "mode"}
\* mode: Literal["general", "checklist", "plain_english"]
AskRequestModes == {"general", "checklist", "plain_english"}
\* the parameters of RAGPipeline.__init__, none of them with a default
InitParams == {"vectorstore", "embeddings", "llm"}
\* the keyword arguments the handler passes to RAGPipeline(...)
InitKeywords == {"vector_store", "embeddings_provider", "llm_client"}
\* the attributes of the request the handler reads for the ask call
AskArguments == {"question", "mode", "top_k"}

MsgEmptyQuestion == <<"Question cannot be empty or whitespace only">>
MsgConfiguration == <<"Service configuration error: ">>
MsgProcessing == <<"An error occurred while processing your question. Please try again.">>

\* raise HTTPException(status_code=..., detail={"message": ...})
HTTPException(status, message) ==
    [status |-> status, answer |-> <<>>, citations |-> <<>>, detail |-> message]

\* return AskResponse(answer=result["answer"], citations=result["citations"], ...)
AskResponse(res) ==
    [status |-> 200, answer |-> res.answer, citations |-> res.citations, detail |-> <<>>]

\* a call with keyword arguments raises TypeError when a keyword names no
\* parameter or a parameter without default gets no argument
CallRaisesTypeError(params, keywords) == keywords # params

\* reading a field a pydantic model does not have raises AttributeError
ReadRaisesAttributeError(fields, names) == ~(names \subseteq fields)

\* settings.EMBED_PROVIDER.lower() / settings.LLM_PROVIDER.lower()
ProviderLower(name) == IF name = "Fake" THEN "fake"
                       ELSE IF name = "Mock" THEN "mock" ELSE name

EmbedProviders == {"gemini", "Fake", "chroma"}
LlmProviders == {"gemini", "Mock", "openai"}

\* what RAGPipeline.ask may return: a fallback, or an answer with a citation
AskResults ==
    {[answer |-> MsgInsufficient, citations |-> <<>>],
     [answer |-> <<"a">>, citations |-> <<[doc_id |-> "doc1", score |-> 500]>>]}

\* the handler leaves with an HTTP response
Respond(response) ==
    /\ h_response' = response
    /\ h_pc' = "done"

\* step 1: the blank question is rejected with 400
AskQuestionValidate ==
    /\ h_pc = "start"
    /\ IF h_request.question = <<>> \/ Strip(h_request.question) = <<>>
       THEN Respond(HTTPException(400, MsgEmptyQuestion))
       ELSE /\ h_pc' = "get_vector_store"
            /\ UNCHANGED h_response
    /\ UNCHANGED <<h_request, h_settings, h_built, h_ask_calls,
                   ask_vars, chunk_vars, store_vars, snippet_vars, ingest_vars,
                   conc_vars>>

\* step 2a: get_vector_store(persist_dir=".chroma"); ChromaVectorStore.__init__
\* raises when the directory or the database cannot be opened
GetVectorStore(ok) ==
    /\ h_pc = "get_vector_store"
    /\ IF ok
       THEN /\ h_built' = h_built \cup {"vector_store"}
            /\ h_pc' = "get_embeddings_provider"
            /\ UNCHANGED h_response
       ELSE /\ Respond(HTTPException(500, MsgConfiguration))
            /\ UNCHANGED h_built
    /\ UNCHANGED <<h_request, h_settings, h_ask_calls,
                   ask_vars, chunk_vars, store_vars, snippet_vars, ingest_vars,
                   conc_vars>>

\* step 2b: get_embeddings_provider(); an unknown provider name raises
\* ValueError, the Gemini provider raises without an API key
GetEmbeddingsProvider(has_api_key) ==
    /\ h_pc = "get_embeddings_provider"
    /\ LET provider_name == ProviderLower(h_settings.EMBED_PROVIDER)
       IN  IF \/ provider_name = "fake"
              \/ provider_name = "gemini" /\ has_api_key
           THEN /\ h_built' = h_built \cup {"embeddings_provider"}
                /\ h_pc' = "get_llm_client"
                /\ UNCHANGED h_response
           ELSE /\ Respond(HTTPException(500, MsgConfiguration))
                /\ UNCHANGED h_built
    /\ UNCHANGED <<h_request, h_settings, h_ask_calls,
                   ask_vars, chunk_vars, store_vars, snippet_vars, ingest_vars,
                   conc_vars>>

\* step 2c: get_llm_client(), the same way
GetLLMClient(has_api_key) ==
    /\ h_pc = "get_llm_client"
    /\ LET provider_name == ProviderLower(h_settings.LLM_PROVIDER)
       IN  IF \/ provider_name = "mock"
              \/ provider_name = "gemini" /\ has_api_key
           THEN /\ h_built' = h_built \cup {"llm_client"}
                /\ h_pc' = "pipeline"
                /\ UNCHANGED h_response
           ELSE /\ Respond(HTTPException(500, MsgConfiguration))
                /\ UNCHANGED h_built
    /\ UNCHANGED <<h_request, h_settings, h_ask_calls,
                   ask_vars, chunk_vars, store_vars, snippet_vars, ingest_vars,
                   conc_vars>>

\* steps 3 to 5: RAGPipeline(...), rag_pipeline.ask(...), AskResponse(...), and
\* the except clause that turns any exception of theirs into a 500
RunPipeline ==
    /\ h_pc = "pipeline"
    /\ IF CallRaisesTypeError(InitParams, InitKeywords)
       THEN /\ Respond(HTTPException(500, MsgProcessing))
            /\ UNCHANGED h_ask_calls
       ELSE IF ReadRaisesAttributeError(AskRequestFields, AskArguments)
       THEN /\ Respond(HTTPException(500, MsgProcessing))
            /\ UNCHANGED h_ask_calls
       ELSE \E res \in AskResults :
               /\ h_ask_calls' = Append(h_ask_calls,
                                        [question |-> Strip(h_request.question),
                                         mode |-> h_request.mode])
               /\ Respond(AskResponse(res))
    /\ UNCHANGED <<h_request, h_settings, h_built,
                   ask_vars, chunk_vars, store_vars, snippet_vars, ingest_vars,
                   conc_vars>>

HandlerInit ==
    /\ AskIdle
    /\ has_relevance_scores = TRUE
    /\ ChunkOff
    /\ StoreFresh
    /\ SnippetOff
    /\ IngestOff
    /\ ConcOff
    /\ h_pc = "start"
    /\ h_request \in [question : Questions, mode : AskRequestModes,
                      trace_id : {"unknown", "t1"}]
    /\ h_settings \in [EMBED_PROVIDER : EmbedProviders, LLM_PROVIDER : LlmProviders]
    /\ h_built = {}
    /\ h_ask_calls = <<>>
    /\ h_response = NoResponse

HandlerNext ==
    \/ AskQuestionValidate
    \/ \E ok \in BOOLEAN : GetVectorStore(ok)
    \/ \E has_api_key \in BOOLEAN : GetEmbeddingsProvider(has_api_key)
    \/ \E has_api_key \in BOOLEAN : GetLLMClient(has_api_key)
    \/ RunPipeline

HandlerSpec == HandlerInit /\ [][HandlerNext]_vars

---------------------------------------------------------------------------
(* POST /ingest (routes/ingest.py), with utils/file_loaders.py and          *)
(* chunk_documents.  A file text is a sequence of runs of blank or          *)
(* non-blank characters; a piece of text is the pair of offsets it takes   *)
(* in the document.                                                        *)

\* ingest runs made on one directory
MaxRuns == 2

\* chunk_documents(documents, chunk_size_chars=2000, overlap_chars=200)
IngestChunkSize == 2000
IngestOverlap == 200

Max(S) == CHOOSE x \in S : \A y \in S : x >= y

Run(blank, len) == [blank |-> blank, len |-> len]

\* offset of the end of run j
RunEnd(runs, j) ==
    LET F[k \in 0..Len(runs)] == IF k = 0 THEN 0 ELSE F[k - 1] + runs[k].len
    IN  F[j]

\* len(text)
TextLength(runs) == RunEnd(runs, Len(runs))

\* text.strip()
StripRuns(runs) ==
    LET nonblank == {j \in 1..Len(runs) : ~runs[j].blank}
    IN  IF nonblank = {} THEN <<>> ELSE SubSeq(runs, Min(nonblank), Max(nonblank))

\* text[from:to].strip(): the range left of the window, <<>> when nothing is left
StripRange(runs, from, to) ==
    LET inside == {j \in 1..Len(runs) : /\ ~runs[j].blank
                                        /\ RunEnd(runs, j - 1) < to
                                        /\ RunEnd(runs, j) > from}
        lo(j) == IF RunEnd(runs, j - 1) > from THEN RunEnd(runs, j - 1) ELSE from
        hi(j) == IF RunEnd(runs, j) < to THEN RunEnd(runs, j) ELSE to
    IN  IF inside = {} THEN <<>>
        ELSE <<Min({lo(j) : j \in inside}), Max({hi(j) : j \in inside})>>

\* the files that data/docs may hold: a short one, one a character longer than a
\* chunk, one with a blank stretch wider than a window, and a blank one
Files ==
    {[stem |-> "short", text |-> <<Run(TRUE, 10), Run(FALSE, 1500), Run(TRUE, 1)>>],
     [stem |-> "long", text |-> <<Run(FALSE, 2001)>>],
     [stem |-> "gap", text |-> <<Run(FALSE, 100), Run(TRUE, 3700), Run(FALSE, 100)>>],
     [stem |-> "blank", text |-> <<Run(TRUE, 50)>>]}

\* load_document_file returns None for a file that is blank once stripped
Loads(file) == StripRuns(file.text) # <<>>

\* load_document_file on a file that loads: doc_id is the file stem
LoadDocumentFile(file) ==
    [doc_id |-> file.stem, title |-> "Title", text |-> StripRuns(file.text)]

\* a set as a list, in the order the directory scan yields it
RECURSIVE Scan(_)
Scan(files) ==
    IF files = {} THEN <<>>
    ELSE LET f == CHOOSE x \in files : TRUE
         IN  <<f>> \o Scan(files \ {f})

\* load_documents_from_directory: the documents of the files that load
LoadDocuments(files) ==
    LET supported == SelectSeq(Scan(files), Loads)
    IN  [k \in 1..Len(supported) |-> LoadDocumentFile(supported[k])]

\* the while loop of chunk_document from a window start on
RECURSIVE ChunkWindows(_, _, _, _, _)
ChunkWindows(document, size, overlap, from, index) ==
    LET text_length == TextLength(document.text)
        to == IF from + size < text_length THEN from + size ELSE text_length
        chunk_text == StripRange(document.text, from, to)
        emitted == ShouldEmit(chunk_text)
    IN  IF from < text_length
        THEN (IF emitted THEN <<Chunk(document.doc_id, index, from, to, chunk_text)>>
              ELSE <<>>)
             \o (IF ReachedEnd(to, text_length) THEN <<>>
                 ELSE ChunkWindows(document, size, overlap,
                                   from + StepSize(size, overlap),
                                   NextChunkIndex(index, emitted)))
        ELSE <<>>

\* chunk_document on a loaded document, for overlap < size
ChunkDocument(document, size, overlap) ==
    IF StripRuns(document.text) = <<>> THEN <<>>
    ELSE IF TextLength(document.text) <= size
    THEN <<Chunk(document.doc_id, 0, 0, TextLength(document.text),
                 <<0, TextLength(document.text)>>)>>
    ELSE ChunkWindows(document, size, overlap, 0, 0)

\* chunk_documents: the chunks of every document, in order
ChunkDocuments(documents, size, overlap) ==
    LET F[k \in 0..Len(documents)] ==
            IF k = 0 THEN <<>>
            ELSE F[k - 1] \o ChunkDocument(documents[k], size, overlap)
    IN  F[Len(documents)]

\* Document(page_content=chunk['text'], metadata={...})
LcDocument(chunk) ==
    [page_content |-> chunk.text,
     metadata |-> [doc_id |-> chunk.doc_id, chunk_id |-> chunk.chunk_id,
                   title |-> chunk.title, start |-> chunk.start, end |-> chunk.end]]

\* the id the vector store gives the n-th record it stores without an id
GeneratedId(n) == <<"uuid", n>>

\* add_documents(lc_documents) is called without ids and the Documents carry
\* none: the vector store generates a new id for every record
RecordId(lc_document, n) == GeneratedId(n)

\* the records add_documents upserts, by id
AddDocuments(index, lc_documents, generated) ==
    LET new == {[id |-> RecordId(lc_documents[k], generated + k),
                 page_content |-> lc_documents[k].page_content,
                 metadata |-> lc_documents[k].metadata] : k \in 1..Len(lc_documents)}
        kept == {r \in index : \A n \in new : n.id # r.id}
    IN  kept \cup new

\* IngestResponse(indexed_docs=..., indexed_chunks=...), or the HTTP 500
IngestResponse(status, indexed_docs, indexed_chunks) ==
    [status |-> status, indexed_docs |-> indexed_docs, indexed_chunks |-> indexed_chunks]

\* the run answers; the next request may start
IngestRespond(response, index) ==
    /\ i_responses' = Append(i_responses, response)
    /\ i_counts' = Append(i_counts, Cardinality(index))
    /\ i_pc' = "start"

\* step 1: load the documents
IngestLoad ==
    /\ i_pc = "start"
    /\ Len(i_responses) < MaxRuns
    /\ i_documents' = LoadDocuments(i_directory)
    /\ IF i_documents' = <<>>
       THEN IngestRespond(IngestResponse(200, 0, 0), i_index)
       ELSE /\ i_pc' = "chunk"
            /\ UNCHANGED <<i_responses, i_counts>>
    /\ UNCHANGED <<i_directory, i_chunks, i_lc_documents, i_index, i_next_id,
                   ask_vars, chunk_vars, store_vars, snippet_vars, handler_vars,
                   conc_vars>>

\* step 2: chunk them
IngestChunk ==
    /\ i_pc = "chunk"
    /\ i_chunks' = ChunkDocuments(i_documents, IngestChunkSize, IngestOverlap)
    /\ IF i_chunks' = <<>>
       THEN IngestRespond(IngestResponse(200, Len(i_documents), 0), i_index)
       ELSE /\ i_pc' = "build"
            /\ UNCHANGED <<i_responses, i_counts>>
    /\ UNCHANGED <<i_directory, i_documents, i_lc_documents, i_index, i_next_id,
                   ask_vars, chunk_vars, store_vars, snippet_vars, handler_vars,
                   conc_vars>>

\* step 3: build_lc_embeddings and build_lc_vectorstore; either may raise
IngestBuild(ok) ==
    /\ i_pc = "build"
    /\ IF ok
       THEN /\ i_pc' = "convert"
            /\ UNCHANGED <<i_responses, i_counts>>
       ELSE IngestRespond(IngestResponse(500, 0, 0), i_index)
    /\ UNCHANGED <<i_directory, i_documents, i_chunks, i_lc_documents, i_index,
                   i_next_id, ask_vars, chunk_vars, store_vars, snippet_vars,
                   handler_vars, conc_vars>>

\* step 4: one LangChain Document per chunk
IngestConvert ==
    /\ i_pc = "convert"
    /\ i_lc_documents' = [k \in 1..Len(i_chunks) |-> LcDocument(i_chunks[k])]
    /\ i_pc' = "add"
    /\ UNCHANGED <<i_directory, i_documents, i_chunks, i_index, i_next_id,
                   i_responses, i_counts, ask_vars, chunk_vars, store_vars,
                   snippet_vars, handler_vars, conc_vars>>

\* step 5: add_documents and the response; an embedding or backend failure
\* raises before anything is stored
IngestAdd(ok) ==
    /\ i_pc = "add"
    /\ IF ok
       THEN /\ i_index' = AddDocuments(i_index, i_lc_documents, i_next_id)
            /\ i_next_id' = i_next_id + Len(i_lc_documents)
            /\ IngestRespond(IngestResponse(200, Len(i_documents), Len(i_lc_documents)),
                             AddDocuments(i_index, i_lc_documents, i_next_id))
       ELSE /\ UNCHANGED <<i_index, i_next_id>>
            /\ IngestRespond(IngestResponse(500, 0, 0), i_index)
    /\ UNCHANGED <<i_directory, i_documents, i_chunks, i_lc_documents,
                   ask_vars, chunk_vars, store_vars, snippet_vars, handler_vars,
                   conc_vars>>

IngestInit ==
    /\ AskIdle
    /\ has_relevance_scores = TRUE
    /\ ChunkOff
    /\ StoreFresh
    /\ SnippetOff
    /\ HandlerOff
    /\ ConcOff
    /\ i_pc = "start"
    /\ i_directory \in SUBSET Files
    /\ i_documents = <<>>
    /\ i_chunks = <<>>
    /\ i_lc_documents = <<>>
    /\ i_index = {}
    /\ i_next_id = 0
    /\ i_responses = <<>>
    /\ i_counts = <<>>

IngestNext ==
    \/ IngestLoad
    \/ IngestChunk
    \/ \E ok \in BOOLEAN : IngestBuild(ok)
    \/ IngestConvert
    \/ \E ok \in BOOLEAN : IngestAdd(ok)

IngestSpec == IngestInit /\ [][IngestNext]_vars

---------------------------------------------------------------------------
(* Concurrent calls on one ChromaVectorStore (services/retrieval.py): two   *)
(* upsert_chunks calls of one chunk each and one query.  The store takes no *)
(* lock; every call of the Chroma client is one atomic step.               *)

MsgNoCollection == <<"Collection lifeblood_docs does not exist.">>
MsgCollectionExists == <<"Collection lifeblood_docs already exists">>

\* the other frames of the concurrent specification
conc_frame == <<ask_vars, chunk_vars, store_vars, snippet_vars, handler_vars,
                ingest_vars>>

\* self.collection still is the collection the client holds
HandleValid == backend.exists /\ self_collection = backend.gen

\* what self.collection.upsert raises for an embedding of dimension dim
ConcurrentUpsertError(dim) ==
    IF ~HandleValid THEN MsgNoCollection
    ELSE IF backend.dim # 0 /\ dim # backend.dim THEN MsgDimensionMismatch
    ELSE NoError

\* self.collection.upsert that succeeded: the record of writer w under its chunk_id
Written(w) ==
    [backend EXCEPT
        !.dim = t_args[w].dim,
        !.records = [id \in (DOMAIN backend.records) \cup {t_args[w].chunk_id} |->
                        IF id = t_args[w].chunk_id
                        THEN [writer |-> w, dim |-> t_args[w].dim]
                        ELSE backend.records[id]]]

\* the call of w ends, with an exception when e is one
UpsertEnds(w, e) ==
    /\ t_error' = [t_error EXCEPT ![w] = e]
    /\ t_pc' = [t_pc EXCEPT ![w] = "done"]

\* lines 130-139: the first self.collection.upsert and the choice of the handler
FirstUpsert(w) ==
    /\ t_pc[w] = "upsert"
    /\ LET e == ConcurrentUpsertError(t_args[w].dim)
       IN  IF e = NoError
           THEN /\ backend' = Written(w)
                /\ UpsertEnds(w, NoError)
           ELSE IF IsDimensionError(e)
           THEN /\ t_pc' = [t_pc EXCEPT ![w] = "delete"]
                /\ UNCHANGED <<backend, t_error>>
           ELSE /\ UpsertEnds(w, e)
                /\ UNCHANGED backend
    /\ UNCHANGED <<t_args, self_collection, q_pc, q_dim, q_result, conc_frame>>

\* line 148: self.client.delete_collection(name)
DeleteCollection(w) ==
    /\ t_pc[w] = "delete"
    /\ IF backend.exists
       THEN /\ backend' = [backend EXCEPT !.exists = FALSE, !.dim = 0,
                                          !.records = EmptyCollection]
            /\ t_pc' = [t_pc EXCEPT ![w] = "create"]
            /\ UNCHANGED t_error
       ELSE /\ UpsertEnds(w, MsgNoCollection)
            /\ UNCHANGED backend
    /\ UNCHANGED <<t_args, self_collection, q_pc, q_dim, q_result, conc_frame>>

\* lines 149-152: self.collection = self.client.create_collection(name)
CreateCollection(w) ==
    /\ t_pc[w] = "create"
    /\ IF backend.exists
       THEN /\ UpsertEnds(w, MsgCollectionExists)
            /\ UNCHANGED <<backend, self_collection>>
       ELSE /\ backend' = Collection(backend.gen + 1, 0, EmptyCollection)
            /\ self_collection' = backend.gen + 1
            /\ t_pc' = [t_pc EXCEPT ![w] = "retry"]
            /\ UNCHANGED t_error
    /\ UNCHANGED <<t_args, q_pc, q_dim, q_result, conc_frame>>

\* lines 156-161: the retry, whose exception leaves upsert_chunks
RetryUpsert(w) ==
    /\ t_pc[w] = "retry"
    /\ LET e == ConcurrentUpsertError(t_args[w].dim)
       IN  IF e = NoError
           THEN /\ backend' = Written(w)
                /\ UpsertEnds(w, NoError)
           ELSE /\ UpsertEnds(w, e)
                /\ UNCHANGED backend
    /\ UNCHANGED <<t_args, self_collection, q_pc, q_dim, q_result, conc_frame>>

\* lines 188-195 of query: the count, whose exception is only logged
QueryCount ==
    /\ q_pc = "count"
    /\ IF HandleValid /\ backend.records = EmptyCollection
       THEN /\ q_result' = "empty"
            /\ q_pc' = "done"
       ELSE /\ q_pc' = "query"
            /\ UNCHANGED q_result
    /\ UNCHANGED <<t_pc, t_args, t_error, backend, self_collection, q_dim, conc_frame>>

\* lines 197-238 of query: self.collection.query, whose exception is raised again
QuerySearch ==
    /\ q_pc = "query"
    /\ q_result' = IF ~HandleValid THEN "raised"
                   ELSE IF backend.dim # 0 /\ q_dim # backend.dim THEN "raised"
                   ELSE IF backend.records = EmptyCollection THEN "empty"
                   ELSE "hits"
    /\ q_pc' = "done"
    /\ UNCHANGED <<t_pc, t_args, t_error, backend, self_collection, q_dim, conc_frame>>

\* the records an earlier upsert of dimension 2 left
Preloaded == [id \in {"c1"} |-> [writer |-> "w0", dim |-> 2]]

ConcInit ==
    /\ AskIdle
    /\ has_relevance_scores = TRUE
    /\ ChunkOff
    /\ StoreFresh
    /\ SnippetOff
    /\ HandlerOff
    /\ IngestOff
    /\ t_pc = [w \in Writers |-> "upsert"]
    /\ t_args \in [Writers -> [chunk_id : StoreIds, dim : Dims \ {0}]]
    /\ t_error = [w \in Writers |-> NoError]
    /\ backend \in {Collection(1, 0, EmptyCollection), Collection(1, 2, Preloaded)}
    /\ self_collection = 1
    /\ q_pc = "count"
    /\ q_dim \in Dims \ {0}
    /\ q_result = "none"

ConcNext ==
    \/ \E w \in Writers : FirstUpsert(w)
    \/ \E w \in Writers : DeleteCollection(w)
    \/ \E w \in Writers : CreateCollection(w)
    \/ \E w \in Writers : RetryUpsert(w)
    \/ QueryCount
    \/ QuerySearch

ConcSpec == ConcInit /\ [][ConcNext]_vars

---------------------------------------------------------------------------
(* Properties of RAGPipeline.ask *)

IsStr(s) == DOMAIN s = 1..Len(s) /\ \A i \in 1..Len(s) : s[i] \in STRING
IsList(s) == DOMAIN s = 1..Len(s)

\* every item the search returned is a (Document, float) pair
WellFormed(docs_with_scores) == ~ConvertRaises(docs_with_scores)

\* the relevance criterion stated on a hit: enough text once trimmed, enough score
Relevant(h) ==
    /\ Len(Strip(h.page_content)) >= MinSnippetLen
    /\ h.score >= MinScore

\* the relevance criterion with the length taken on the text as stored
RelevantUntrimmed(h) ==
    /\ Strip(h.page_content) # <<>>
    /\ Len(h.page_content) >= MinSnippetLen
    /\ h.score >= MinScore

\* the entries of cits at the positions where the hit satisfies Keep
AtKept(cits, hits, Keep(_)) ==
    LET F[n \in 0..Len(cits)] ==
            IF n = 0 THEN <<>>
            ELSE IF Keep(hits[n]) THEN Append(F[n - 1], cits[n]) ELSE F[n - 1]
    IN  F[Len(cits)]

\* the search returned and conversion went through
Filtered == pc \in {"prompt", "generate", "finish", "done"} /\ Succeeded("search")
                /\ WellFormed(retrieved_docs_with_scores)

\* ask returned the LLM's answer
Answered == pc = "done" /\ Succeeded("llm") /\ llm_response.kind = "str"

\* C1: ask never lets an exception reach its caller; whatever fails, inside or
\* outside the three inner try blocks, it returns a dict with exactly an
\* 'answer' string and a 'citations' list.
C1_NeverPropagates ==
    /\ ~propagated
    /\ pc = "done" =>
          /\ DOMAIN result = {"answer", "citations"}
          /\ IsStr(result.answer)
          /\ IsList(result.citations)

\* an exception raised outside the inner try blocks was turned into the generic fallback
C1_Witness ==
    /\ pc = "done"
    /\ ConvertRaises(retrieved_docs_with_scores)
    /\ result = Returned(MsgUnexpected, <<>>)

\* C2: an empty or whitespace-only question gets the fixed 'Please provide a
\* specific question' answer with no citations, and neither the vector store,
\* the prompt builder nor the LLM is invoked.
C2_BlankQuestionRejected ==
    (pc # "idle" /\ Strip(question) = <<>>) =>
        /\ pc = "done"
        /\ result = Returned(MsgProvideQuestion, <<>>)
        /\ calls = <<>>

\* a whitespace-only question was answered
C2_Witness ==
    /\ pc = "done"
    /\ question = <<" ">>
    /\ result.answer = MsgProvideQuestion

\* C3: when the search returns and no hit is relevant (zero hits included), the
\* LLM is never invoked and ask returns the 'I don't have enough information'
\* fallback with no citations.
C3_NoRelevantHitNoLLM ==
    (/\ pc \notin {"idle", "retrieve"}
     /\ Succeeded("search")
     /\ WellFormed(retrieved_docs_with_scores)
     /\ \A i \in 1..Len(retrieved_docs_with_scores) :
            ~Relevant(retrieved_docs_with_scores[i])) =>
        /\ ~Called("llm")
        /\ ~Called("prompt")
        /\ pc = "done" => result = Returned(MsgInsufficient, <<>>)

\* a search that found hits, none relevant, ended in the fallback
C3_Witness ==
    /\ pc = "done"
    /\ Succeeded("search")
    /\ Len(retrieved_docs_with_scores) = 2
    /\ WellFormed(retrieved_docs_with_scores)
    /\ result = Returned(MsgInsufficient, <<>>)

\* C4: whenever the search raises, whatever the message, ask answers with the
\* 'error searching for relevant information' fallback and no citations.
C4_SearchFailureIsSearchError ==
    (pc = "done" /\ Failed("search")) => result = Returned(MsgSearchError, <<>>)

\* C5: when a hit survived the filter and the LLM call raises, ask returns the
\* 'error generating the response' fallback with no citations.
C5_LLMFailureFallback ==
    (pc = "done" /\ Failed("llm")) => result = Returned(MsgGenerateError, <<>>)

\* the LLM raised while citations had survived
C5_Witness ==
    /\ pc = "done"
    /\ Failed("llm")
    /\ Len(meaningful_citations) = 2
    /\ result.answer = MsgGenerateError

\* C6: when the LLM call returns, the answer is the LLM text trimmed, an empty
\* or whitespace-only text is replaced by 'I was unable to generate a
\* response.', and so the answer is never blank.
C6_AnswerTrimmedNeverBlank ==
    Answered =>
        /\ result.answer = IF Strip(llm_response.val) = <<>> THEN MsgUnable
                           ELSE Strip(llm_response.val)
        /\ Strip(result.answer) # <<>>

\* C7 as stated: the filter keeps a hit iff its text is non-blank, has at least
\* 20 characters and its score is at least 0.01.
C7_FilterOnTextLength ==
    Filtered =>
        meaningful_citations =
            AtKept(citations, retrieved_docs_with_scores, RelevantUntrimmed)

\* C7 amended: the filter keeps a hit iff its text has at least 20 characters
\* once surrounding whitespace is trimmed and its score is at least 0.01; the
\* boundary values score = 0.01 and trimmed length = 20 are kept, a score of
\* 0.005 is dropped.
C7_FilterOnTrimmedLength ==
    Filtered =>
        meaningful_citations =
            AtKept(citations, retrieved_docs_with_scores, Relevant)

\* a hit at both boundaries was kept and a hit with score 0.005 was dropped
C7_Witness ==
    /\ pc = "prompt"
    /\ Len(retrieved_docs_with_scores) = 2
    /\ Len(retrieved_docs_with_scores[1].page_content) = MinSnippetLen
    /\ retrieved_docs_with_scores[1].score = MinScore
    /\ retrieved_docs_with_scores[2].score = 5
    /\ Len(retrieved_docs_with_scores[2].page_content) = 25
    /\ Len(meaningful_citations) = 1

\* C8: on an answered request the citations are the relevant hits, one per hit
\* in retrieval order, each with the hit's doc_id ('unknown' when the hit has
\* none), title, chunk_id and score; there are at most top_k of them.
C8_CitationsAreSurvivingHits ==
    Answered =>
        LET kept == SelectSeq(retrieved_docs_with_scores, Relevant)
        IN  /\ Len(result.citations) = Len(kept)
            /\ Len(result.citations) <= top_k
            /\ \A i \in 1..Len(kept) :
                  /\ result.citations[i].doc_id = DictGet(kept[i].metadata, "doc_id", "unknown")
                  /\ result.citations[i].title = DictGet(kept[i].metadata, "title", None)
                  /\ result.citations[i].chunk_id = DictGet(kept[i].metadata, "chunk_id", None)
                  /\ result.citations[i].score = kept[i].score

\* an answer with two citations from different documents
C8_Witness ==
    /\ Answered
    /\ Len(result.citations) = 2
    /\ result.citations[1].doc_id # result.citations[2].doc_id

\* C9: every citation score returned by ask lies in [0, 1], with either
\* retrieval method of the vector store.
C9_ScoresInUnitInterval ==
    pc = "done" =>
        \A i \in 1..Len(result.citations) :
            result.citations[i].score >= 0 /\ result.citations[i].score <= 1000

\* C23: the prompt sent to the LLM has one 'Source [i]' entry per surviving
\* hit, numbered 1..N without gaps in retrieval order, and entry i carries the
\* full chunk text of hit i, not a truncated snippet.
C23_PromptSourcesFullText ==
    Called("llm") =>
        LET kept == SelectSeq(retrieved_docs_with_scores, Relevant)
            entries == prompt.sources.entries
        IN  /\ Len(entries) = Len(kept)
            /\ \A i \in 1..Len(entries) :
                  /\ entries[i].index = i
                  /\ entries[i].text = Strip(kept[i].page_content)

\* C29: on an answered request 'Source [i]' of the prompt sent to the LLM and
\* citations[i-1] of the result come from the same hit, for every citation,
\* and the prompt has no source entry without a citation.
C29_SourceNumbersMatchCitations ==
    Answered =>
        LET kept == SelectSeq(retrieved_docs_with_scores, Relevant)
            entries == prompt.sources.entries
        IN  /\ Len(entries) = Len(result.citations)
            /\ Len(entries) = Len(kept)
            /\ \A i \in 1..Len(entries) :
                  /\ entries[i].index = i
                  /\ entries[i].doc_id = result.citations[i].doc_id
                  /\ entries[i].title = result.citations[i].title
                  /\ entries[i].text = Strip(result.citations[i].snippet)
                  /\ entries[i].doc_id = DictGet(kept[i].metadata, "doc_id", "unknown")
                  /\ entries[i].text =
                        Strip(CreateSnippet(kept[i].page_content, DefaultMaxLength))
                  /\ result.citations[i].chunk_id =
                        DictGet(kept[i].metadata, "chunk_id", None)

\* an answer whose only citation is the second retrieved hit: it is Source [1]
C29_Witness ==
    /\ Answered
    /\ Len(retrieved_docs_with_scores) = 2
    /\ ~Relevant(retrieved_docs_with_scores[1])
    /\ Len(result.citations) = 1
    /\ Len(prompt.sources.entries) = 1
    /\ prompt.sources.entries[1].index = 1
    /\ prompt.sources.entries[1].doc_id =
          DictGet(retrieved_docs_with_scores[2].metadata, "doc_id", "unknown")

\* the positions of the external-call log that belong to one capability
CallsOf(op) == {i \in 1..Len(calls) : calls[i].op = op}

\* within one ask: one search at most, one LLM call at most, the LLM only after
\* a search that returned
CallOrder ==
    /\ Cardinality(CallsOf("search")) <= 1
    /\ Cardinality(CallsOf("llm")) <= 1
    /\ \A i \in CallsOf("llm") : \E j \in 1..(i - 1) : calls[j] = Call("search", TRUE)

\* C30 as stated: the citations of a result are non-empty iff retrieval
\* succeeded, a hit survived the filter, the prompt was built and the LLM call
\* returned; the store is searched at most once, the LLM invoked at most once
\* and only after the search.
C30_CitationsIffLLMReturned ==
    /\ CallOrder
    /\ pc = "done" =>
          (result.citations # <<>> <=>
              /\ Succeeded("search")
              /\ meaningful_citations # <<>>
              /\ Succeeded("prompt")
              /\ Succeeded("llm"))

\* C30: the citations of a result are non-empty iff ask returned the LLM's
\* answer, that is retrieval succeeded, a hit survived the filter, the prompt
\* was built, the LLM call returned and its text was a string that step 6 could
\* trim; every other outcome has no citations; the store is searched at most
\* once, the LLM invoked at most once and only after the search.
C30_CitationsIffAnswered ==
    /\ CallOrder
    /\ pc = "done" =>
          /\ result.citations # <<>> <=> Answered
          /\ Answered =>
                /\ Succeeded("search")
                /\ meaningful_citations # <<>>
                /\ Succeeded("prompt")
                /\ result.citations = meaningful_citations

\* the LLM call returned a list-valued content after a hit had survived: the
\* result is the generic fallback without citations
C30_Witness ==
    /\ pc = "done"
    /\ Succeeded("llm")
    /\ llm_response.kind = "list"
    /\ meaningful_citations # <<>>
    /\ result = Returned(MsgUnexpected, <<>>)

---------------------------------------------------------------------------
(* Properties of chunk_document *)

\* C10: with overlap_chars >= chunk_size_chars chunk_document always raises
\* ValueError, whatever the document text.
C10_BadOverlapAlwaysRaises ==
    (c_pc = "done" /\ overlap_chars >= chunk_size_chars) => c_raised


\* chunk_document returned its list of chunks
ChunkReturned == c_pc = "done" /\ ~c_raised

\* position p (0-based) lies in the [start, end) range of an emitted chunk
InSomeChunk(p) == \E i \in 1..Len(chunks) : chunks[i].start <= p /\ p < chunks[i].end

\* window k of the sliding scheme: [k * step, min(k * step + size, len(text)))
WindowStart(k) == k * (chunk_size_chars - overlap_chars)
WindowEnd(k) ==
    IF WindowStart(k) + chunk_size_chars < Len(text)
    THEN WindowStart(k) + chunk_size_chars ELSE Len(text)
InBlankWindow(p) ==
    \E k \in 0..Len(text) :
        /\ WindowStart(k) <= p /\ p < WindowEnd(k)
        /\ \A j \in WindowStart(k)..(WindowEnd(k) - 1) : text[j + 1] = " "

\* C11: every emitted chunk has 0 <= start < end <= len(text), text that is
\* non-empty after trimming and at most chunk_size_chars long; a blank document
\* yields no chunk.
C11_ChunkWellFormed ==
    /\ \A i \in 1..Len(chunks) :
          /\ 0 <= chunks[i].start
          /\ chunks[i].start < chunks[i].end
          /\ chunks[i].end <= Len(text)
          /\ Strip(chunks[i].text) # <<>>
          /\ Len(chunks[i].text) <= chunk_size_chars
    /\ (c_pc = "done" /\ Strip(text) = <<>>) => (chunks = <<>> /\ ~c_raised)

\* a text with a blank window in the middle was chunked
C11_Witness ==
    /\ ChunkReturned
    /\ Len(chunks) >= 2
    /\ chunk_index < Len(text)
    /\ \E p \in 0..(Len(text) - 1) : ~InSomeChunk(p)

\* C12: for a non-blank text and overlap_chars < chunk_size_chars the chunk
\* ranges cover [0, len(text)) except positions lying in a dropped all-blank
\* window; every non-blank character lies in the range of an emitted chunk.
C12_ChunksCoverText ==
    (ChunkReturned /\ Strip(text) # <<>> /\ overlap_chars < chunk_size_chars) =>
        \A p \in 0..(Len(text) - 1) :
            /\ InSomeChunk(p) \/ InBlankWindow(p)
            /\ text[p + 1] # " " => InSomeChunk(p)

\* several windows were emitted and one position is covered by none
C12_Witness ==
    /\ ChunkReturned
    /\ overlap_chars > 0
    /\ Len(chunks) >= 2
    /\ \E p \in 0..(Len(text) - 1) : ~InSomeChunk(p) /\ InBlankWindow(p)

\* C13: for consecutive chunks get_chunk_overlap lies in [0, overlap_chars],
\* and is positive when overlap_chars > 0 and the chunks come from adjacent
\* windows.
C13_OverlapBounded ==
    ChunkReturned =>
        \A i \in 1..(Len(chunks) - 1) :
            LET ov == GetChunkOverlap(chunks[i], chunks[i + 1])
                adjacent == chunks[i + 1].start =
                                chunks[i].start + (chunk_size_chars - overlap_chars)
            IN  /\ 0 <= ov
                /\ ov <= overlap_chars
                /\ (overlap_chars > 0 /\ adjacent) => ov > 0

\* adjacent windows overlapped, and two chunks around a dropped window did not
C13_Witness ==
    /\ ChunkReturned
    /\ \E i \in 1..(Len(chunks) - 1) : GetChunkOverlap(chunks[i], chunks[i + 1]) = overlap_chars
    /\ overlap_chars > 0
    /\ \E i \in 1..(Len(chunks) - 1) : GetChunkOverlap(chunks[i], chunks[i + 1]) = 0

\* C14: the i-th emitted chunk (from 0) has chunk_id '<doc_id>_chunk_<i>', also
\* when blank windows were dropped in between, and chunk starts increase
\* strictly.
C14_ChunkIdsContiguous ==
    /\ \A i \in 1..Len(chunks) : chunks[i].chunk_id = <<chunks[i].doc_id, "_chunk_", i - 1>>
    /\ \A i, j \in 1..Len(chunks) : i # j => chunks[i].chunk_id # chunks[j].chunk_id
    /\ \A i \in 1..(Len(chunks) - 1) : chunks[i].start < chunks[i + 1].start

\* a chunk was emitted after a dropped window
C14_Witness ==
    /\ ChunkReturned
    /\ Len(chunks) >= 2
    /\ chunks[2].start > chunks[1].start + (chunk_size_chars - overlap_chars)

\* ceil(a / b) for a >= 0 and b > 0
CeilDiv(a, b) == (a + b - 1) \div b

\* the k-th window of the sliding window, k counted from 0
Window(k) ==
    LET step == chunk_size_chars - overlap_chars
    IN  [start |-> k * step,
         end |-> IF k * step + chunk_size_chars < Len(text)
                 THEN k * step + chunk_size_chars ELSE Len(text)]

\* the windows examined so far are the first ones of the sliding window; none
\* but the last reaches the end of the text, and when the loop is left there
\* are 1 + ceil((L - size) / step) of them, the last one ending at L
WindowsExamined ==
    (c_pc \in {"loop", "done"} /\ overlap_chars < chunk_size_chars
        /\ Len(text) > chunk_size_chars) =>
        /\ \A k \in 1..Len(windows) : windows[k] = Window(k - 1)
        /\ \A k \in 1..(Len(windows) - 1) : windows[k].end < Len(text)
        /\ c_pc = "loop" => start = Len(windows) * (chunk_size_chars - overlap_chars)
        /\ c_pc = "done" =>
              /\ Len(windows) = 1 + CeilDiv(Len(text) - chunk_size_chars,
                                            chunk_size_chars - overlap_chars)
              /\ windows[Len(windows)].end = Len(text)

\* C27 as stated: with overlap_chars < chunk_size_chars chunk_document
\* terminates; on every text longer than chunk_size_chars the k-th window
\* examined is [k*step, min(k*step + chunk_size_chars, L)), the loop stops at
\* the first window whose end is L, and 1 + ceil((L - chunk_size_chars) / step)
\* windows are examined.
C27_EveryTextWindowed ==
    /\ []WindowsExamined
    /\ (c_pc = "start" /\ overlap_chars < chunk_size_chars) ~> (c_pc = "done" /\ ~c_raised)

\* C27: with overlap_chars < chunk_size_chars chunk_document terminates; on a
\* text that is not blank and longer than chunk_size_chars the k-th window
\* examined is [k*step, min(k*step + chunk_size_chars, L)), the loop stops at
\* the first window whose end is L, and 1 + ceil((L - chunk_size_chars) / step)
\* windows are examined; on a blank text no window is examined.
C27_ChunkingTerminates ==
    /\ [](Strip(text) # <<>> => WindowsExamined)
    /\ [](Strip(text) = <<>> => windows = <<>>)
    /\ (c_pc = "start" /\ overlap_chars < chunk_size_chars) ~> (c_pc = "done" /\ ~c_raised)

\* a text cut with an overlap into two windows, the second one shortened by
\* the end of the text
C27_Witness ==
    /\ c_pc = "done"
    /\ Strip(text) # <<>>
    /\ overlap_chars > 0
    /\ Len(windows) = 2
    /\ windows[2].end - windows[2].start < chunk_size_chars
    /\ windows[2].end = Len(text)

---------------------------------------------------------------------------
(* Properties of ChromaVectorStore *)

\* the last call was upsert_chunks
Upserted == s_op.name = "upsert"

\* C15: upsert_chunks with len(chunks) # len(embeddings) always raises the
\* count-mismatch ValueError, also when exactly one of the lists is empty.
C15_LengthMismatchRaises ==
    (Upserted /\ s_op.n_chunks # s_op.n_embeddings) => s_raised = MsgCountMismatch

\* C16: an upsert_chunks call that raises leaves the indexed records exactly
\* as they were before the call.
C16_RaisingUpsertWritesNothing ==
    [][(s_op'.name = "upsert" /\ s_raised' # NoError) => collection' = collection]_vars

\* C17: while every upsert_chunks call since the last reset succeeded and
\* used one dimension, the collection holds one record per distinct
\* chunk_id written, with the text and metadata of the latest write of that
\* id, and count() is the number of those ids.
C17_UpsertKeyedByChunkId ==
    hist_ok =>
        /\ DOMAIN collection = DOMAIN written
        /\ \A id \in DOMAIN written :
              /\ collection[id].document = written[id].document
              /\ collection[id].metadata = written[id].metadata
        /\ (s_op.name = "count" /\ s_log[1].error = NoError) =>
              count_result = Cardinality(DOMAIN written)

\* c1 was written twice, last with its new text, and count() returned 2
C17_Witness ==
    /\ hist_ok
    /\ s_op.name = "count"
    /\ count_result = 2
    /\ "c1" \in DOMAIN written
    /\ written["c1"].rewritten
    /\ written["c1"].document = "new"
    /\ collection["c1"].metadata = {<<"doc_id", "doc">>}

\* number of entries of the log that record the call
TimesLogged(log, call) == Cardinality({i \in 1..Len(log) : log[i].call = call})

\* C18: a first write that fails with a dimension mismatch is followed by a
\* warning, delete_collection, create_collection and one retry, whose failure
\* is raised; there is never a second reset or retry; a first write that
\* fails for another reason is re-raised without a reset.
C18_ResetOnlyOnDimensionMismatch ==
    (Upserted /\ Logged(s_log, "upsert")) =>
        /\ (s_log[1].error = MsgDimensionMismatch /\ Logged(s_log, "create_collection")) =>
              /\ s_log[2] = LogWarning
              /\ TimesLogged(s_log, "upsert") = 2
              /\ s_raised = s_log[Len(s_log)].error
        /\ TimesLogged(s_log, "upsert") <= 2
        /\ TimesLogged(s_log, "delete_collection") <= 1
        /\ s_log[1].error \notin {NoError, MsgDimensionMismatch} =>
              /\ ~Logged(s_log, "delete_collection")
              /\ s_raised = s_log[1].error
              /\ Len(s_log) = 1

\* C19: query returns at most top_k hits, exactly min(top_k, count()) for a
\* non-empty vector, ordered by non-increasing score.
C19_QueryTopKOrdered ==
    (s_op.name = "query" /\ s_raised = NoError) =>
        LET count == Cardinality(DOMAIN collection)
        IN  /\ Len(query_result) <= s_op.top_k
            /\ s_op.dim # 0 =>
                  Len(query_result) = IF s_op.top_k < count THEN s_op.top_k ELSE count
            /\ \A i \in 1..(Len(query_result) - 1) :
                  query_result[i].score >= query_result[i + 1].score

\* top_k = 1 cut the answer to the nearest of two records
C19_Witness ==
    /\ s_op.name = "query"
    /\ s_op.top_k = 1
    /\ Cardinality(DOMAIN collection) = 2
    /\ Len(query_result) = 1
    /\ query_result[1].score = 700

\* C20: every score returned by query is clamp(1 - distance, 0, 1) of the
\* backend distance of that hit, so it lies in [0, 1] also for distances
\* above 1 and below 0.
C20_ScoreIsClampedSimilarity ==
    s_op.name = "query" =>
        /\ Len(raw_distances) = Len(query_result)
        /\ \A i \in 1..Len(query_result) :
              /\ query_result[i].score =
                    IF raw_distances[i] >= 1000 THEN 0
                    ELSE IF raw_distances[i] <= 0 THEN 1000
                    ELSE 1000 - raw_distances[i]
              /\ 0 <= query_result[i].score
              /\ query_result[i].score <= 1000

\* one hit had a distance below 0 and the next a distance above 1
C20_Witness ==
    /\ s_op.name = "query"
    /\ Len(query_result) = 2
    /\ raw_distances[1] < 0
    /\ raw_distances[2] > 1000

\* the backend failed for a reason of its own during the last call
BackendFailed == \E i \in 1..Len(s_log) : s_log[i].error = MsgBackendFailure

\* C21: after a reset that returned, whatever was upserted before, the
\* collection has no record and no dimension, so count() is 0, query returns
\* [] without raising and an upsert is never refused for its dimension; query
\* also returns [] without raising for an empty vector and on a collection
\* that was never written.
C21_ResetLeavesEmptyIndex ==
    /\ [](/\ (s_op.name = "reset" /\ s_raised = NoError) =>
                (collection = EmptyCollection /\ col_dim = 0)
          /\ reset_wiped => (collection = EmptyCollection /\ col_dim = 0)
          /\ (s_op.name = "count" /\ collection = EmptyCollection) => count_result = 0
          /\ (s_op.name = "query" /\ (collection = EmptyCollection \/ s_op.dim = 0)) =>
                /\ query_result = <<>>
                /\ ~BackendFailed => s_raised = NoError)
    /\ [][(collection = EmptyCollection /\ s_op'.name = "upsert") =>
             \A i \in 1..Len(s_log') : s_log'[i].error # MsgDimensionMismatch]_vars

\* records were removed by a reset, then a query with a vector returned []
C21_Witness ==
    /\ reset_wiped
    /\ s_op.name = "query"
    /\ s_op.dim # 0
    /\ s_raised = NoError
    /\ query_result = <<>>

---------------------------------------------------------------------------
(* Properties of _create_snippet *)

\* s ends with the characters of suffix
EndsWith(s, suffix) ==
    /\ Len(s) >= Len(suffix)
    /\ SubSeq(s, Len(s) - Len(suffix) + 1, Len(s)) = suffix

Ellipsis == <<".", ".", ".">>

\* C22: for every text and every max_length the snippet has at most
\* max_length characters, and when the text is longer than max_length it ends
\* in '...' or in a period.
C22_SnippetWithinMaxLength ==
    sn_pc = "done" =>
        /\ Len(sn_result) <= sn_max_length
        /\ Len(Strip(sn_text)) > sn_max_length =>
              (EndsWith(sn_result, Ellipsis) \/ EndsWith(sn_result, <<".">>))

\* the first max_length characters of t, and the 0-based positions of their
\* last period and last space (-1 when there is none)
Truncated(t, max_length) == SubSeq(t, 1, max_length)
LastPeriod(t, max_length) == RFind(Truncated(t, max_length), ".")
LastSpace(t, max_length) == RFind(Truncated(t, max_length), " ")

\* C26: for a text longer than max_length the snippet is cut just after the
\* last period of the first max_length characters when that period is at or
\* after 0.7 * max_length; otherwise at the last space at or after
\* 0.7 * max_length, followed by '...'; otherwise it is the first
\* max_length - 3 characters followed by '...'.
C26_SnippetCutRule ==
    LET t == Strip(sn_text)
        p == LastPeriod(t, sn_max_length)
        q == LastSpace(t, sn_max_length)
    IN  (sn_pc = "done" /\ Len(t) > sn_max_length) =>
            sn_result =
                IF p >= 0 /\ 10 * p >= 7 * sn_max_length THEN SubSeq(t, 1, p + 1)
                ELSE IF q >= 0 /\ 10 * q >= 7 * sn_max_length THEN SubSeq(t, 1, q) \o Ellipsis
                ELSE SubSeq(t, 1, sn_max_length - 3) \o Ellipsis

---------------------------------------------------------------------------
(* Properties of POST /ask *)

\* the three dependencies of the pipeline were built
AllBuilt == h_built = {"vector_store", "embeddings_provider", "llm_client"}

\* C28: for a non-blank question, once the vector store, the embeddings
\* provider and the LLM client are built, the handler calls ask exactly once
\* with the request's question and mode and responds 200 with the answer and
\* citations of that call; dependencies that were built never end in a 500.
C28_HandlerCallsAskOnce ==
    (h_pc = "done" /\ AllBuilt) =>
        /\ Len(h_ask_calls) = 1
        /\ h_ask_calls[1].question = Strip(h_request.question)
        /\ h_ask_calls[1].mode = h_request.mode
        /\ h_response.status = 200

---------------------------------------------------------------------------
(* Properties of POST /ingest *)

\* run n of the ingest answered 200 after storing chunks
Indexed(n) ==
    /\ n \in 1..Len(i_responses)
    /\ i_responses[n].status = 200
    /\ i_responses[n].indexed_chunks > 0

\* C25: a second ingest of the same documents leaves as many records as the
\* first; every record is stored under its chunk_id, one record per chunk_id;
\* and indexed_chunks of a run is the number of chunks the chunker produced.
C25_IngestTwiceSameRecords ==
    /\ (Indexed(1) /\ Indexed(2)) => i_counts[2] = i_counts[1]
    /\ \A r \in i_index : r.id = r.metadata.chunk_id
    /\ \A n \in 1..Len(i_responses) :
          Indexed(n) =>
              i_responses[n].indexed_chunks =
                  Len(ChunkDocuments(LoadDocuments(i_directory),
                                     IngestChunkSize, IngestOverlap))

---------------------------------------------------------------------------
(* Properties of concurrent calls on the store *)

\* every concurrent upsert_chunks call has ended
AllUpsertsEnded == \A w \in Writers : t_pc[w] = "done"

\* C24: under any interleaving of concurrent upsert_chunks calls, dimension
\* recovery included, and a concurrent query, every upsert ends without an
\* exception and every chunk_id the calls wrote has its record afterwards,
\* holding what one of those calls wrote.
C24_ConcurrentUpsertsComplete ==
    AllUpsertsEnded =>
        /\ \A w \in Writers : t_error[w] = NoError
        /\ backend.exists
        /\ \A w \in Writers :
              /\ t_args[w].chunk_id \in DOMAIN backend.records
              /\ backend.records[t_args[w].chunk_id].writer \in
                    {v \in Writers : t_args[v].chunk_id = t_args[w].chunk_id}

====
